---- MODULE Spec2Model ----
(***************************************************************************)
(* Position-indexed task tools of the todo chatbot.                        *)
(*                                                                         *)
(* The task store is the `tasks` table read by the MCP server              *)
(* (src/mcp_server/server.py).  Every tool handler runs                    *)
(* select(Task).where(Task.user_id == u) with no ORDER BY, which scans the *)
(* table in row order, so the table is a sequence of rows in insertion     *)
(* order, a new row is appended and a deleted row is taken out.            *)
(*                                                                         *)
(* Text values (titles, descriptions) are sequences of one-character       *)
(* strings, so that str.strip() is computed.  An Optional[str] field is    *)
(* None (the empty sequence) or Some(s) (the one-element sequence <<s>>).  *)
(* The created_at / updated_at columns are not modelled: no handler reads  *)
(* them.                                                                   *)
(***************************************************************************)
EXTENDS Integers, Sequences, FiniteSets, TLC

VARIABLES
    tasks,          \* the tasks table, in row order
    nextId,         \* primary key of the next task row
    last,           \* tool, status and detail of the last MCP response
    conversations,  \* the conversations table
    messages,       \* the messages table, in timestamp order
    invocations,    \* the tool_invocations table
    turn,           \* the chat request being handled by chat_endpoint
    response,       \* the last response of chat_endpoint
    before,         \* history: the tasks table when the turn started
    requests        \* history: the requests posted to the MCP server in the turn

storeVars == <<tasks, nextId, last>>

chatVars ==
    <<conversations, messages, invocations, turn, response, before, requests>>

vars == <<tasks, nextId, last, conversations, messages, invocations, turn,
          response, before, requests>>

(* ------------------------------ bounds --------------------------------- *)

\* Number of task rows ever created (ids 1..MaxIds).
MaxIds == 3

(* ------------------------------ inputs --------------------------------- *)

Users == {"u1", "u2"}

\* user_id values a request can carry: a user, or the empty string.
UserIds == Users \cup {""}

None == <<>>

Some(s) == <<s>>

\* Titles sent to add_task: empty, blank, plain.
AddTitles == {<<>>, <<" ">>, <<"a">>}

AddDescriptions == {<<>>}

\* Optional title / description sent to update_task: absent, or a new value
\* (update_task stores whatever text it is given, a blank title included).
UpdateTitles == {None, Some(<<" ">>)}

UpdateDescriptions == {None, Some(<<>>)}

\* task_position values: below range, in range, above range.
Positions == 0 .. (MaxIds + 1)

(* --------------------------- text helpers ------------------------------ *)

RECURSIVE lstrip(_)
lstrip(s) ==
    IF s = <<>> THEN s
    ELSE IF Head(s) = " " THEN lstrip(Tail(s)) ELSE s

RECURSIVE rstrip(_)
rstrip(s) ==
    IF s = <<>> THEN s
    ELSE IF s[Len(s)] = " " THEN rstrip(SubSeq(s, 1, Len(s) - 1)) ELSE s

\* str.strip(): leading and trailing whitespace removed.
strip(s) == rstrip(lstrip(s))

(* ----------------------------- the store ------------------------------- *)

\* Faulty variant: the scan is not restricted to the owner.
get_user_tasks_all(db, user_id) == db

\* Faulty variant: the scan returns the newest row first (ORDER BY created_at DESC).
get_user_tasks_newest_first(db, user_id) ==
    LET scan == SelectSeq(db, LAMBDA t : t.user_id = user_id)
    IN [i \in 1 .. Len(scan) |-> scan[Len(scan) + 1 - i]]

\* select(Task).where(Task.user_id == user_id).all()
get_user_tasks(db, user_id) == SelectSeq(db, LAMBDA t : t.user_id = user_id)

\* Faulty variant: the row and every row after it go.
session_delete_truncate(db, id) == SelectSeq(db, LAMBDA t : t.id < id)

\* session.delete(db_task); session.commit(): the row with that primary key goes.
RECURSIVE session_delete(_, _)
session_delete(db, id) ==
    IF db = <<>> THEN <<>>
    ELSE IF Head(db).id = id THEN Tail(db)
    ELSE <<Head(db)>> \o session_delete(Tail(db), id)

\* session.add(db_task); session.commit() of a loaded row: the row with that
\* primary key is rewritten in place.
session_update(db, row) ==
    [i \in 1 .. Len(db) |-> IF db[i].id = row.id THEN row ELSE db[i]]

\* HTTP responses.  `body` is the JSON body of a 200, `detail` the detail of an
\* HTTPException; `db` and `nid` are the table and the id counter afterwards.
Ok(body, db, nid) ==
    [status |-> 200, detail |-> "", body |-> body, db |-> db, nid |-> nid]

Fail(status, detail, db, nid) ==
    [status |-> status, detail |-> detail, body |-> <<>>, db |-> db, nid |-> nid]

\* get_task_by_position: the row at a 1-indexed position of the user's scan.
get_task_by_position(db, user_id, position) ==
    LET scan == get_user_tasks(db, user_id) IN
    IF position < 1 \/ position > Len(scan)
    THEN Fail(404, "Task at position not found", db, 0)
    ELSE Ok([task |-> scan[position], index |-> position - 1], db, 0)

\* Faulty variant: the title is tested for emptiness only, not stripped.
add_task_tool_no_strip(db, nid, request) ==
    IF request.title = <<>>
    THEN Fail(400, "Title is required", db, nid)
    ELSE IF request.user_id = ""
    THEN Fail(400, "User ID is required", db, nid)
    ELSE LET db_task == [id |-> nid,
                         title |-> request.title,
                         description |-> request.description,
                         user_id |-> request.user_id,
                         completed |-> FALSE]
         IN Ok([success |-> TRUE, task |-> db_task], Append(db, db_task), nid + 1)

\* Faulty variant: the primary key is the number of rows plus one, so the key
\* of a deleted row is given out again.
add_task_tool_reuses_id(db, nid, request) ==
    IF request.title = <<>> \/ strip(request.title) = <<>>
    THEN Fail(400, "Title is required", db, nid)
    ELSE IF request.user_id = ""
    THEN Fail(400, "User ID is required", db, nid)
    ELSE LET db_task == [id |-> Len(db) + 1,
                         title |-> request.title,
                         description |-> request.description,
                         user_id |-> request.user_id,
                         completed |-> FALSE]
         IN Ok([success |-> TRUE, task |-> db_task], Append(db, db_task), nid + 1)

\* POST /tools/add_task
add_task_tool(db, nid, request) ==
    IF request.title = <<>> \/ strip(request.title) = <<>>
    THEN Fail(400, "Title is required", db, nid)
    ELSE IF request.user_id = ""
    THEN Fail(400, "User ID is required", db, nid)
    ELSE LET db_task == [id |-> nid,
                         title |-> request.title,
                         description |-> request.description,
                         user_id |-> request.user_id,
                         completed |-> FALSE]
         IN Ok([success |-> TRUE, task |-> db_task], Append(db, db_task), nid + 1)

\* The position-tagged rows of one completion status, in scan order.
RECURSIVE tagged(_, _, _)
tagged(scan, idx, completed) ==
    IF idx > Len(scan) THEN <<>>
    ELSE (IF scan[idx].completed = completed
          THEN <<[task |-> scan[idx], position |-> idx]>>
          ELSE <<>>) \o tagged(scan, idx + 1, completed)

\* Faulty variant: the positions are counted from 0.
list_tasks_tool_zero_based(db, nid, request) ==
    IF request.user_id = ""
    THEN Fail(400, "User ID is required", db, nid)
    ELSE LET scan == get_user_tasks(db, request.user_id)
             shifted(seq) == [n \in 1 .. Len(seq) |->
                                 [seq[n] EXCEPT !.position = @ - 1]]
             pending_tasks == shifted(tagged(scan, 1, FALSE))
             completed_tasks == shifted(tagged(scan, 1, TRUE))
         IN Ok([success |-> TRUE,
                tasks |-> pending_tasks \o completed_tasks,
                summary |-> [total |-> Len(scan),
                             pending |-> Len(pending_tasks),
                             completed |-> Len(completed_tasks)],
                pending_tasks |-> pending_tasks,
                completed_tasks |-> completed_tasks], db, nid)

\* Faulty variant: the positions are numbered after the regrouping, by the index in
\* the returned sequence.
list_tasks_tool_renumbered(db, nid, request) ==
    IF request.user_id = ""
    THEN Fail(400, "User ID is required", db, nid)
    ELSE LET scan == get_user_tasks(db, request.user_id)
             grouped == tagged(scan, 1, FALSE) \o tagged(scan, 1, TRUE)
             task_list == [n \in 1 .. Len(grouped) |->
                              [task |-> grouped[n].task, position |-> n]]
             pending_tasks == SelectSeq(task_list, LAMBDA e : ~e.task.completed)
             completed_tasks == SelectSeq(task_list, LAMBDA e : e.task.completed)
         IN Ok([success |-> TRUE,
                tasks |-> task_list,
                summary |-> [total |-> Len(scan),
                             pending |-> Len(pending_tasks),
                             completed |-> Len(completed_tasks)],
                pending_tasks |-> pending_tasks,
                completed_tasks |-> completed_tasks], db, nid)

\* Faulty variant: the total counts the rows of the whole table, not of the owner.
list_tasks_tool_counts_all(db, nid, request) ==
    IF request.user_id = ""
    THEN Fail(400, "User ID is required", db, nid)
    ELSE LET scan == get_user_tasks(db, request.user_id)
             pending_tasks == tagged(scan, 1, FALSE)
             completed_tasks == tagged(scan, 1, TRUE)
         IN Ok([success |-> TRUE,
                tasks |-> pending_tasks \o completed_tasks,
                summary |-> [total |-> Len(db),
                             pending |-> Len(pending_tasks),
                             completed |-> Len(completed_tasks)],
                pending_tasks |-> pending_tasks,
                completed_tasks |-> completed_tasks], db, nid)

\* POST /tools/list_tasks
list_tasks_tool(db, nid, request) ==
    IF request.user_id = ""
    THEN Fail(400, "User ID is required", db, nid)
    ELSE LET scan == get_user_tasks(db, request.user_id)
             pending_tasks == tagged(scan, 1, FALSE)
             completed_tasks == tagged(scan, 1, TRUE)
         IN Ok([success |-> TRUE,
                tasks |-> pending_tasks \o completed_tasks,
                summary |-> [total |-> Len(scan),
                             pending |-> Len(pending_tasks),
                             completed |-> Len(completed_tasks)],
                pending_tasks |-> pending_tasks,
                completed_tasks |-> completed_tasks], db, nid)

\* Faulty variant: the position is looked up before the fields are validated.
update_task_tool_lookup_first(db, nid, request) ==
    IF request.user_id = ""
    THEN Fail(400, "User ID is required", db, nid)
    ELSE LET scan == get_user_tasks(db, request.user_id) IN
         IF request.task_position < 1 \/ request.task_position > Len(scan)
         THEN Fail(500, "Error updating task: 404: Task at position not found", db, nid)
         ELSE IF request.title = None /\ request.description = None
         THEN Fail(400, "At least one field must be provided", db, nid)
         ELSE LET db_task == scan[request.task_position]
                  t1 == IF request.title # None
                        THEN [db_task EXCEPT !.title = request.title[1]]
                        ELSE db_task
                  t2 == IF request.description # None
                        THEN [t1 EXCEPT !.description = request.description[1]]
                        ELSE t1
              IN Ok([success |-> TRUE, task |-> t2], session_update(db, t2), nid)

\* Faulty variant: a field that is not provided is emptied.
update_task_tool_overwrites(db, nid, request) ==
    IF request.user_id = ""
    THEN Fail(400, "User ID is required", db, nid)
    ELSE IF request.title = None /\ request.description = None
    THEN Fail(400, "At least one field must be provided", db, nid)
    ELSE LET scan == get_user_tasks(db, request.user_id) IN
         IF request.task_position < 1 \/ request.task_position > Len(scan)
         THEN Fail(500, "Error updating task: 404: Task at position not found", db, nid)
         ELSE LET db_task == scan[request.task_position]
                  t2 == [db_task EXCEPT
                            !.title = IF request.title # None
                                      THEN request.title[1] ELSE <<>>,
                            !.description = IF request.description # None
                                            THEN request.description[1] ELSE <<>>]
              IN Ok([success |-> TRUE, task |-> t2], session_update(db, t2), nid)

\* POST /tools/update_task.  The 404 is raised inside the try block whose
\* `except Exception` turns every exception into a 500.
update_task_tool(db, nid, request) ==
    IF request.user_id = ""
    THEN Fail(400, "User ID is required", db, nid)
    ELSE IF request.title = None /\ request.description = None
    THEN Fail(400, "At least one field must be provided", db, nid)
    ELSE LET scan == get_user_tasks(db, request.user_id) IN
         IF request.task_position < 1 \/ request.task_position > Len(scan)
         THEN Fail(500, "Error updating task: 404: Task at position not found", db, nid)
         ELSE LET db_task == scan[request.task_position]
                  t1 == IF request.title # None
                        THEN [db_task EXCEPT !.title = request.title[1]]
                        ELSE db_task
                  t2 == IF request.description # None
                        THEN [t1 EXCEPT !.description = request.description[1]]
                        ELSE t1
              IN Ok([success |-> TRUE, task |-> t2], session_update(db, t2), nid)

\* Faulty variant: the flag is flipped instead of set to request.completed.
complete_task_tool_toggle(db, nid, request) ==
    IF request.user_id = ""
    THEN Fail(400, "User ID is required", db, nid)
    ELSE LET scan == get_user_tasks(db, request.user_id) IN
         IF request.task_position < 1 \/ request.task_position > Len(scan)
         THEN Fail(500, "Error updating task completion: 404: Task at position not found", db, nid)
         ELSE LET db_task == [scan[request.task_position]
                                 EXCEPT !.completed = ~@]
              IN Ok([success |-> TRUE, task |-> db_task],
                    session_update(db, db_task), nid)

\* Faulty variant: the completed row is written as a new row, at the end of the table.
complete_task_tool_reinsert(db, nid, request) ==
    IF request.user_id = ""
    THEN Fail(400, "User ID is required", db, nid)
    ELSE LET scan == get_user_tasks(db, request.user_id) IN
         IF request.task_position < 1 \/ request.task_position > Len(scan)
         THEN Fail(500, "Error updating task completion: 404: Task at position not found", db, nid)
         ELSE LET db_task == [scan[request.task_position]
                                 EXCEPT !.completed = request.completed]
              IN Ok([success |-> TRUE, task |-> db_task],
                    Append(session_delete(db, db_task.id), db_task), nid)

\* POST /tools/complete_task
complete_task_tool(db, nid, request) ==
    IF request.user_id = ""
    THEN Fail(400, "User ID is required", db, nid)
    ELSE LET scan == get_user_tasks(db, request.user_id) IN
         IF request.task_position < 1 \/ request.task_position > Len(scan)
         THEN Fail(500, "Error updating task completion: 404: Task at position not found", db, nid)
         ELSE LET db_task == [scan[request.task_position]
                                 EXCEPT !.completed = request.completed]
              IN Ok([success |-> TRUE, task |-> db_task],
                    session_update(db, db_task), nid)

\* Faulty variant: the range test starts at 0, and tasks[-1] is the last row.
delete_task_tool_from_zero(db, nid, request) ==
    IF request.user_id = ""
    THEN Fail(400, "User ID is required", db, nid)
    ELSE LET scan == get_user_tasks(db, request.user_id) IN
         IF request.task_position < 0 \/ request.task_position > Len(scan)
            \/ scan = <<>>
         THEN Fail(500, "Error deleting task: 404: Task at position not found", db, nid)
         ELSE LET db_task == IF request.task_position = 0 THEN scan[Len(scan)]
                             ELSE scan[request.task_position]
              IN Ok([success |-> TRUE, message |-> request.task_position],
                    session_delete(db, db_task.id), nid)

\* Faulty variant: the position indexes the scan without the - 1.
delete_task_tool_off_by_one(db, nid, request) ==
    IF request.user_id = ""
    THEN Fail(400, "User ID is required", db, nid)
    ELSE LET scan == get_user_tasks(db, request.user_id) IN
         IF request.task_position < 1 \/ request.task_position >= Len(scan)
         THEN Fail(500, "Error deleting task: 404: Task at position not found", db, nid)
         ELSE LET db_task == scan[request.task_position + 1]
              IN Ok([success |-> TRUE, message |-> request.task_position],
                    session_delete(db, db_task.id), nid)

\* Faulty variant: the position is taken for the task's id.
delete_task_tool_by_id(db, nid, request) ==
    IF request.user_id = ""
    THEN Fail(400, "User ID is required", db, nid)
    ELSE LET scan == get_user_tasks(db, request.user_id)
             hit == SelectSeq(scan, LAMBDA t : t.id = request.task_position)
         IN IF hit = <<>>
            THEN Fail(500, "Error deleting task: 404: Task at position not found", db, nid)
            ELSE Ok([success |-> TRUE, message |-> request.task_position],
                    session_delete(db, hit[1].id), nid)

\* POST /tools/delete_task
delete_task_tool(db, nid, request) ==
    IF request.user_id = ""
    THEN Fail(400, "User ID is required", db, nid)
    ELSE LET scan == get_user_tasks(db, request.user_id) IN
         IF request.task_position < 1 \/ request.task_position > Len(scan)
         THEN Fail(500, "Error deleting task: 404: Task at position not found", db, nid)
         ELSE LET db_task == scan[request.task_position]
              IN Ok([success |-> TRUE, message |-> request.task_position],
                    session_delete(db, db_task.id), nid)

(* ----------------------------- requests -------------------------------- *)

AddTaskRequest ==
    [title : AddTitles, description : AddDescriptions, user_id : UserIds]

ListTasksRequest == [user_id : UserIds]

UpdateTaskRequest ==
    [task_position : Positions, user_id : UserIds,
     title : UpdateTitles, description : UpdateDescriptions]

CompleteTaskRequest ==
    [task_position : Positions, user_id : UserIds, completed : BOOLEAN]

DeleteTaskRequest == [task_position : Positions, user_id : UserIds]

(* ------------------------- MCP server actions -------------------------- *)

\* One tool handler runs to completion: the handlers are coroutines without an
\* await, so the server never interleaves two of them.
Served(tool, r) ==
    /\ tasks' = r.db
    /\ nextId' = r.nid
    /\ last' = [tool |-> tool, status |-> r.status, detail |-> r.detail]

AddTask ==
    /\ \E request \in AddTaskRequest :
        LET r == add_task_tool(tasks, nextId, request) IN
        /\ r.status = 200 => nextId <= MaxIds
        /\ Served("add_task", r)
    /\ UNCHANGED chatVars

ListTasks ==
    /\ \E request \in ListTasksRequest :
        Served("list_tasks", list_tasks_tool(tasks, nextId, request))
    /\ UNCHANGED chatVars

UpdateTask ==
    /\ \E request \in UpdateTaskRequest :
        Served("update_task", update_task_tool(tasks, nextId, request))
    /\ UNCHANGED chatVars

CompleteTask ==
    /\ \E request \in CompleteTaskRequest :
        Served("complete_task", complete_task_tool(tasks, nextId, request))
    /\ UNCHANGED chatVars

DeleteTask ==
    /\ \E request \in DeleteTaskRequest :
        Served("delete_task", delete_task_tool(tasks, nextId, request))
    /\ UNCHANGED chatVars

GetTaskByPosition ==
    /\ \E user_id \in Users, position \in Positions :
        LET r == get_task_by_position(tasks, user_id, position) IN
        last' = [tool |-> "get_task_by_position", status |-> r.status,
                 detail |-> r.detail]
    /\ UNCHANGED <<tasks, nextId>>
    /\ UNCHANGED chatVars

NoTurn ==
    [pc |-> "new", user_id |-> "", conversation_id |-> 0, message |-> "",
     messages |-> <<>>, tool_calls |-> <<>>, i |-> 0,
     tool_results_cache |-> <<>>, api_messages |-> <<>>, net |-> {}]

NoResponse == [status |-> 0, detail |-> "", message |-> "", tool_calls |-> <<>>]

NoLast == [tool |-> "", status |-> 0, detail |-> ""]

InitChat ==
    /\ conversations = <<>>
    /\ messages = <<>>
    /\ invocations = <<>>
    /\ turn = NoTurn
    /\ response = NoResponse
    /\ requests = <<>>

\* The MCP server on an empty tasks table, called by any client.
Init ==
    /\ tasks = <<>>
    /\ nextId = 1
    /\ last = NoLast
    /\ before = <<>>
    /\ InitChat

Next ==
    \/ AddTask
    \/ ListTasks
    \/ UpdateTask
    \/ CompleteTask
    \/ DeleteTask
    \/ GetTaskByPosition

Spec == Init /\ [][Next]_vars

\* The MCP server when tasks are only added and read.
NextAdd ==
    \/ AddTask
    \/ ListTasks
    \/ GetTaskByPosition

SpecAdd == Init /\ [][NextAdd]_vars

(* --------------------------- the orchestrator -------------------------- *)
(* chat_endpoint of src/backend/api/chat.py.  One chat request is followed *)
(* from its arrival to its response; it is suspended at the two model      *)
(* calls and at every HTTP call to the MCP server, and runs without        *)
(* interruption between them.                                              *)

Has(args, k) == k \in DOMAIN args

NoArgs == <<>>

\* function_args["user_id"] = current_user.id
Inject(args, user_id) ==
    [k \in DOMAIN args \cup {"user_id"} |->
        IF k = "user_id" THEN user_id ELSE args[k]]

\* The MCP server answering POST /tools/<tool_name> with JSON body `args`:
\* the request model is validated (422 when a required field is missing),
\* then the handler runs.
mcp_post(db, nid, tool_name, args) ==
    CASE tool_name = "add_task" ->
            IF ~Has(args, "title") \/ ~Has(args, "user_id")
            THEN Fail(422, "Field required", db, nid)
            ELSE add_task_tool(db, nid,
                     [title |-> args.title,
                      description |-> IF Has(args, "description")
                                      THEN args.description ELSE <<>>,
                      user_id |-> args.user_id])
      [] tool_name = "list_tasks" ->
            IF ~Has(args, "user_id")
            THEN Fail(422, "Field required", db, nid)
            ELSE list_tasks_tool(db, nid, [user_id |-> args.user_id])
      [] tool_name = "update_task" ->
            IF ~Has(args, "task_position") \/ ~Has(args, "user_id")
            THEN Fail(422, "Field required", db, nid)
            ELSE update_task_tool(db, nid,
                     [task_position |-> args.task_position,
                      user_id |-> args.user_id,
                      title |-> IF Has(args, "title")
                                THEN Some(args.title) ELSE None,
                      description |-> IF Has(args, "description")
                                      THEN Some(args.description) ELSE None])
      [] tool_name = "complete_task" ->
            IF ~Has(args, "task_position") \/ ~Has(args, "user_id")
            THEN Fail(422, "Field required", db, nid)
            ELSE complete_task_tool(db, nid,
                     [task_position |-> args.task_position,
                      user_id |-> args.user_id,
                      completed |-> IF Has(args, "completed")
                                    THEN args.completed ELSE TRUE])
      [] tool_name = "delete_task" ->
            IF ~Has(args, "task_position") \/ ~Has(args, "user_id")
            THEN Fail(422, "Field required", db, nid)
            ELSE delete_task_tool(db, nid,
                     [task_position |-> args.task_position,
                      user_id |-> args.user_id])

tool_endpoints ==
    {"add_task", "list_tasks", "update_task", "complete_task", "delete_task"}

\* Faulty variant: a name without an endpoint is posted to the MCP server,
\* which has no such route.
call_mcp_tool_posts_unknown(db, nid, tool_name, tool_args) ==
    LET http == IF tool_name \in tool_endpoints
                THEN mcp_post(db, nid, tool_name, tool_args)
                ELSE Fail(404, "Not Found", db, nid)
    IN [result |-> IF http.status # 200
                   THEN [error |-> "Tool call failed", status |-> http.status,
                         detail |-> http.detail]
                   ELSE http.body,
        sent |-> TRUE,
        http |-> http]

\* call_mcp_tool for arguments that carry no task_id: the result handed to the
\* orchestrator, and the MCP server's answer `http` when a request was sent.
call_mcp_tool(db, nid, tool_name, tool_args) ==
    IF tool_name \notin tool_endpoints
    THEN [result |-> [error |-> "Unknown tool"], sent |-> FALSE,
          http |-> Fail(0, "", db, nid)]
    ELSE LET http == mcp_post(db, nid, tool_name, tool_args) IN
         [result |-> IF http.status # 200
                     THEN [error |-> "Tool call failed", status |-> http.status,
                           detail |-> http.detail]
                     ELSE http.body,
          sent |-> TRUE,
          http |-> http]

\* Faulty variant: the position is the place of the task in the returned
\* list, not the position the list reports for it.
get_task_position_from_id_index(http, task_id) ==
    IF http.status # 200 THEN None
    ELSE IF ~http.body.success THEN None
    ELSE LET tasks_ == http.body.tasks
             hits == {n \in 1 .. Len(tasks_) : tasks_[n].task.id = task_id}
         IN IF hits = {} THEN None
            ELSE Some(CHOOSE n \in hits : \A m \in hits : n <= m)

\* get_task_position_from_id, applied to the MCP server's answer to its
\* list_tasks request: the position of the first listed task with that id,
\* or None.
get_task_position_from_id(http, task_id) ==
    IF http.status # 200 THEN None
    ELSE IF ~http.body.success THEN None
    ELSE LET tasks_ == http.body.tasks
             hits == {n \in 1 .. Len(tasks_) : tasks_[n].task.id = task_id}
         IN IF hits = {} THEN None
            ELSE Some(tasks_[CHOOSE n \in hits : \A m \in hits : n <= m].position)

\* execute_tool, delete_task and toggle_task_completion branches: the
\* 1-indexed place of the task with that id in a scan of the user's rows,
\* or None.
execute_tool_task_position(db, user_id, task_id) ==
    LET all_tasks == get_user_tasks(db, user_id)
        hits == {idx \in 1 .. Len(all_tasks) : all_tasks[idx].id = task_id}
    IN IF hits = {} THEN None
       ELSE Some(CHOOSE idx \in hits : \A m \in hits : idx <= m)

\* Rows of the messages table of one conversation, in timestamp order, as
\* role/content pairs.
reconstruct_conversation_history(msgs, conversation_id) ==
    LET own == SelectSeq(msgs, LAMBDA m : m.conversation_id = conversation_id)
    IN [i \in 1 .. Len(own) |-> [role |-> own[i].role, content |-> own[i].content]]

save_message_to_db(msgs, conversation_id, role, content) ==
    Append(msgs, [conversation_id |-> conversation_id, role |-> role,
                  content |-> content])

\* Faulty variant: only the invocations that succeeded are saved.
save_tool_invocation_to_db_successes(invs, conversation_id, tool_name, parameters, result) ==
    IF "error" \in DOMAIN result THEN invs
    ELSE Append(invs, [conversation_id |-> conversation_id, tool_name |-> tool_name,
                       parameters |-> parameters, result |-> result])

save_tool_invocation_to_db(invs, conversation_id, tool_name, parameters, result) ==
    Append(invs, [conversation_id |-> conversation_id, tool_name |-> tool_name,
                  parameters |-> parameters, result |-> result])

\* What the model can be asked and can answer.
ChatMessages == {"delete all tasks"}

\* Tool calls the model can request: each of the tools, delete_task at every
\* position of a table of MaxIds tasks.
ModelCalls ==
    {[name |-> "add_task", arguments |-> [title |-> <<"a">>]],
     [name |-> "list_tasks", arguments |-> NoArgs]}
    \cup {[name |-> "delete_task", arguments |-> [task_position |-> k]] :
             k \in 1 .. MaxIds}

\* The tool calls of one model response: up to MaxIds of them, in any order,
\* the n-th with the identifier n.
ModelPlans ==
    UNION {{[i \in 1 .. n |-> [id |-> i, name |-> p[i].name,
                                arguments |-> p[i].arguments]] :
               p \in [1 .. n -> ModelCalls]} : n \in 0 .. MaxIds}

\* A model message: its text ("" for none) and its tool calls.
FirstResponses ==
    {[content |-> "", tool_calls |-> p] : p \in ModelPlans}
    \cup {[content |-> "reply", tool_calls |-> <<>>]}

SecondResponses ==
    {[content |-> c, tool_calls |-> p] :
        c \in {"", "reply"},
        p \in {<<>>, <<[id |-> 1, name |-> "list_tasks", arguments |-> NoArgs]>>}}

\* str(e) of the exceptions the model client raises.
ModelErrors == {"Connection error."}

\* str() of an HTTPException.
http_str(status, detail) == ToString(status) \o ": " \o detail

\* Lines 823-824: whatever is raised inside the try block is raised again as
\* a 500 whose detail carries str(e).
outer_except(e) == "Error processing chat request: " \o e

Done(status, detail, message, tool_calls) ==
    /\ response' = [status |-> status, detail |-> detail, message |-> message,
                    tool_calls |-> tool_calls]
    /\ turn' = [turn EXCEPT !.pc = "done"]

\* Faulty variant: the user message is saved before the path is checked.
StartTurn_saves_first ==
    /\ turn.pc = "new"
    /\ \E user_id \in Users, current_user \in Users, message \in ChatMessages :
        /\ current_user # user_id
        /\ messages' = save_message_to_db(messages, 0, "user", message)
        /\ Done(403, "Not authorized to access this user's conversations",
                "", <<>>)
    /\ UNCHANGED <<storeVars, conversations, invocations, before, requests>>

\* Lines 405-656: the path is checked against the authenticated user, the
\* conversation is found or created, the user message is saved, the history is
\* read back and the messages for the model are put together.
StartTurn ==
    /\ turn.pc = "new"
    /\ \E user_id \in Users, current_user \in Users, message \in ChatMessages :
        IF current_user # user_id
        THEN /\ Done(403, "Not authorized to access this user's conversations",
                     "", <<>>)
             /\ UNCHANGED <<conversations, messages, before>>
        ELSE LET found == SelectSeq(conversations, LAMBDA c : c.user_id = user_id)
                 conversation == IF found # <<>> THEN found[1]
                                 ELSE [id |-> Len(conversations) + 1,
                                       user_id |-> user_id]
                 saved == save_message_to_db(messages, conversation.id, "user",
                                             message)
                 history == reconstruct_conversation_history(saved, conversation.id)
             IN /\ conversations' = IF found # <<>> THEN conversations
                                    ELSE Append(conversations, conversation)
                /\ messages' = saved
                /\ turn' = [pc |-> "model1",
                            user_id |-> current_user,
                            conversation_id |-> conversation.id,
                            message |-> message,
                            messages |-> <<[role |-> "system",
                                            content |-> "system_instructions"]>>
                                         \o history
                                         \o <<[role |-> "user", content |-> message]>>,
                            tool_calls |-> <<>>,
                            i |-> 0,
                            tool_results_cache |-> <<>>,
                            api_messages |-> <<>>,
                            net |-> {}]
                /\ before' = tasks
                /\ UNCHANGED response
    /\ UNCHANGED <<storeVars, invocations, requests>>

\* Lines 658-687 and 806-821: the first model call answers.  Without tool
\* calls its text is the reply, which is saved and returned.
\* Faulty variant: a response without tool calls is followed by a second
\* model call.
FirstAnswer_second_call(response_message) ==
    /\ turn' = [turn EXCEPT !.pc = IF response_message.tool_calls # <<>>
                                   THEN "tools" ELSE "model2",
                            !.tool_calls = response_message.tool_calls,
                            !.api_messages = IF response_message.tool_calls # <<>>
                                             THEN <<>> ELSE turn.messages]
    /\ UNCHANGED <<messages, response>>

\* Faulty variant: the text of the first response is saved as the reply
\* before the tools are called.
FirstAnswer_saves_before_tools(response_message) ==
    LET chat_response_content ==
            IF response_message.content # ""
            THEN response_message.content
            ELSE "I processed your request."
    IN IF response_message.tool_calls # <<>>
       THEN /\ turn' = [turn EXCEPT !.pc = "tools",
                                    !.tool_calls = response_message.tool_calls]
            /\ messages' = save_message_to_db(messages, turn.conversation_id,
                                              "assistant", chat_response_content)
            /\ UNCHANGED response
       ELSE /\ messages' = save_message_to_db(messages, turn.conversation_id,
                                              "assistant", chat_response_content)
            /\ Done(200, "", chat_response_content, <<>>)

FirstAnswer(response_message) ==
    IF response_message.tool_calls # <<>>
    THEN /\ turn' = [turn EXCEPT !.pc = "tools",
                                 !.tool_calls = response_message.tool_calls]
         /\ UNCHANGED <<messages, response>>
    ELSE LET chat_response_content ==
                 IF response_message.content # ""
                 THEN response_message.content
                 ELSE "I processed your request."
         IN /\ messages' = save_message_to_db(messages, turn.conversation_id,
                                              "assistant", chat_response_content)
            /\ Done(200, "", chat_response_content, <<>>)

FirstModelCall ==
    /\ turn.pc = "model1"
    /\ \E response_message \in FirstResponses : FirstAnswer(response_message)
    /\ UNCHANGED <<storeVars, conversations, invocations, before, requests>>

\* Lines 666-668 and 823-824: the first model call raises.
FirstModelCallFails ==
    /\ turn.pc = "model1"
    /\ \E e \in ModelErrors :
        Done(500, outer_except(http_str(500, "Error calling AI model: " \o e)),
             "", <<>>)
    /\ UNCHANGED <<storeVars, conversations, messages, invocations, before,
                   requests>>

\* json.dumps: the text of a value, kept apart from the value itself.
json_dumps(v) == [json |-> v]

\* Faulty variant: every tool message carries the result of the first call.
api_messages_first_result(t, cache) ==
    t.messages
    \o <<[role |-> "assistant", content |-> "", tool_calls |-> t.tool_calls]>>
    \o [n \in 1 .. Len(t.tool_calls) |->
           [role |-> "tool", content |-> json_dumps(cache[t.tool_calls[1].id]),
            tool_call_id |-> t.tool_calls[n].id]]

\* The messages of the second model call (lines 753-771): the first call's
\* messages, the assistant message with its tool calls, and one tool message
\* per tool call with the cached result.
api_messages(t, cache) ==
    t.messages
    \o <<[role |-> "assistant", content |-> "", tool_calls |-> t.tool_calls]>>
    \o [n \in 1 .. Len(t.tool_calls) |->
           [role |-> "tool", content |-> json_dumps(cache[t.tool_calls[n].id]),
            tool_call_id |-> t.tool_calls[n].id]]

\* Lines 334-338 of call_mcp_tool: the HTTP client raises before the MCP
\* server has the request; the exception becomes the result.
call_mcp_tool_raised(db, nid, tool_name, tool_args) ==
    [result |-> [error |-> "Failed to call tool"], sent |-> FALSE,
     http |-> Fail(0, "", db, nid)]

\* Lines 699-751, one pass of the loop: the user id is injected, the tool is
\* called, its result is cached under the tool call's id and the invocation is
\* saved.  After the last pass the messages of the second call are built.
\* `raised` tells whether the HTTP client raises in this pass.
ToolStep(raised) ==
    LET tool_call == turn.tool_calls[turn.i + 1]
        function_name == tool_call.name
        function_args == Inject(tool_call.arguments, turn.user_id)
        c == IF raised
             THEN call_mcp_tool_raised(tasks, nextId, function_name, function_args)
             ELSE call_mcp_tool(tasks, nextId, function_name, function_args)
        cache == [id \in DOMAIN turn.tool_results_cache \cup {tool_call.id} |->
                     IF id = tool_call.id THEN c.result
                     ELSE turn.tool_results_cache[id]]
        finished == turn.i + 1 = Len(turn.tool_calls)
    IN /\ tasks' = c.http.db
       /\ nextId' = c.http.nid
       /\ last' = IF c.sent
                  THEN [tool |-> function_name, status |-> c.http.status,
                        detail |-> c.http.detail]
                  ELSE last
       /\ requests' = IF c.sent
                      THEN Append(requests, [tool |-> function_name,
                                             args |-> function_args])
                      ELSE requests
       /\ invocations' = save_tool_invocation_to_db(invocations,
                             turn.conversation_id, function_name,
                             function_args, c.result)
       /\ turn' = [turn EXCEPT
                      !.i = turn.i + 1,
                      !.tool_results_cache = cache,
                      !.pc = IF finished THEN "model2" ELSE "tools",
                      !.api_messages = IF finished THEN api_messages(turn, cache)
                                       ELSE <<>>]

\* Faulty variant: a failed tool call is raised and ends the turn.
CallTool_raising ==
    /\ turn.pc = "tools"
    /\ LET tool_call == turn.tool_calls[turn.i + 1]
           c == call_mcp_tool(tasks, nextId, tool_call.name,
                              Inject(tool_call.arguments, turn.user_id))
       IN IF "error" \in DOMAIN c.result
          THEN /\ Done(500, outer_except("Tool call failed"), "", <<>>)
               /\ UNCHANGED <<storeVars, invocations, requests>>
          ELSE /\ ToolStep(FALSE)
               /\ UNCHANGED response
    /\ UNCHANGED <<conversations, messages, before>>

CallTool ==
    /\ turn.pc = "tools"
    /\ ToolStep(FALSE)
    /\ UNCHANGED <<conversations, messages, response, before>>

\* A pass of the loop in which the MCP server cannot be reached.
CallToolUnreachable ==
    /\ turn.pc = "tools"
    /\ turn.tool_calls[turn.i + 1].name \in tool_endpoints
    /\ ToolStep(TRUE)
    /\ UNCHANGED <<conversations, messages, response, before>>

\* The tool_calls field of the ChatResponse (lines 733-741, 819).
response_tool_calls(t) ==
    [n \in 1 .. Len(t.tool_calls) |->
        [id |-> t.tool_calls[n].id, name |-> t.tool_calls[n].name,
         arguments |-> t.tool_calls[n].arguments]]

\* Lines 795-796: the confirmation that names the number of operations.
completed_count(operations_count) ==
    "I've completed " \o ToString(operations_count) \o " task"
    \o (IF operations_count > 1 THEN "s" ELSE "") \o " for you!"

\* Faulty variant: the tool calls of the second response are executed in
\* another round, as an agent loop would.
SecondModelCall_loops ==
    /\ turn.pc = "model2"
    /\ \E final_message \in SecondResponses :
        LET content == IF final_message.content # ""
                       THEN final_message.content
                       ELSE "Operation completed successfully."
        IN IF final_message.tool_calls # <<>>
           THEN /\ turn' = [turn EXCEPT !.pc = "tools",
                                        !.tool_calls = final_message.tool_calls,
                                        !.i = 0,
                                        !.tool_results_cache = <<>>]
                /\ UNCHANGED <<messages, response>>
           ELSE /\ messages' = save_message_to_db(messages, turn.conversation_id,
                                                  "assistant", content)
                /\ Done(200, "", content, response_tool_calls(turn))
    /\ UNCHANGED <<storeVars, conversations, invocations, before, requests>>

\* Lines 777-821: the second model call answers; its text, or a stock
\* sentence, is saved as the assistant's reply and returned.
SecondModelCall ==
    /\ turn.pc = "model2"
    /\ \E final_message \in SecondResponses :
        LET content == IF final_message.content # ""
                       THEN final_message.content
                       ELSE "Operation completed successfully."
            chat_response_content ==
                IF content = "" /\ final_message.tool_calls # <<>>
                THEN completed_count(Len(turn.tool_calls))
                ELSE content
        IN /\ messages' = save_message_to_db(messages, turn.conversation_id,
                                             "assistant", chat_response_content)
           /\ Done(200, "", chat_response_content, response_tool_calls(turn))
    /\ UNCHANGED <<storeVars, conversations, invocations, before, requests>>

\* Faulty variant: an apology is saved as the assistant's reply before the
\* failure is raised.
SecondModelCallFails_apology ==
    /\ turn.pc = "model2"
    /\ messages' = save_message_to_db(messages, turn.conversation_id,
                                      "assistant", "Please try again.")
    /\ \E e \in ModelErrors :
        Done(500,
             outer_except(http_str(500,
                 "Error calling AI model for final response: " \o e)),
             "", <<>>)
    /\ UNCHANGED <<storeVars, conversations, invocations, before, requests>>

\* Faulty variant: the failure undoes what the tool calls of the turn did.
SecondModelCallFails_rollback ==
    /\ turn.pc = "model2"
    /\ tasks' = before
    /\ invocations' = <<>>
    /\ \E e \in ModelErrors :
        Done(500,
             outer_except(http_str(500,
                 "Error calling AI model for final response: " \o e)),
             "", <<>>)
    /\ UNCHANGED <<nextId, last, conversations, messages, before, requests>>

\* Lines 801-803 and 823-824: the second model call raises.
SecondModelCallFails ==
    /\ turn.pc = "model2"
    /\ \E e \in ModelErrors :
        Done(500,
             outer_except(http_str(500,
                 "Error calling AI model for final response: " \o e)),
             "", <<>>)
    /\ UNCHANGED <<storeVars, conversations, messages, invocations, before,
                   requests>>

\* Tables the MCP server can have been brought to by add_task calls before the
\* chat request arrives.
AddedTables ==
    UNION {{[i \in 1 .. n |-> [id |-> i, title |-> <<"a">>, description |-> <<>>,
                               user_id |-> owner[i], completed |-> FALSE]] :
               owner \in [1 .. n -> Users]} : n \in 0 .. MaxIds}

InitTurn ==
    /\ tasks \in AddedTables
    /\ nextId = Len(tasks) + 1
    /\ last = NoLast
    /\ before = tasks
    /\ InitChat

NextTurn ==
    \/ StartTurn
    \/ FirstModelCall
    \/ FirstModelCallFails
    \/ CallTool
    \/ SecondModelCall
    \/ SecondModelCallFails

\* One chat request, with no other client of the MCP server.
SpecTurn == InitTurn /\ [][NextTurn]_vars

(* A chat request in which the model may ask for any of the tools, with    *)
(* arguments that succeed or fail, with an owner of its own choosing or    *)
(* for a tool that does not exist, and in which the MCP server may be out  *)
(* of reach.                                                               *)

\* Number of tool calls in one model response.
MaxCalls == 2

ToolCalls ==
    {[name |-> "add_task", arguments |-> [title |-> <<"a">>]],
     [name |-> "add_task", arguments |-> [title |-> <<" ">>]],
     [name |-> "list_tasks", arguments |-> NoArgs],
     [name |-> "update_task",
      arguments |-> [task_position |-> 1, title |-> <<"b">>]],
     [name |-> "complete_task", arguments |-> [task_position |-> 1]],
     [name |-> "delete_task",
      arguments |-> [task_position |-> 1, user_id |-> "u2"]],
     [name |-> "search_tasks", arguments |-> NoArgs]}

ToolPlans ==
    UNION {{[i \in 1 .. n |-> [id |-> i, name |-> p[i].name,
                                arguments |-> p[i].arguments]] :
               p \in [1 .. n -> ToolCalls]} : n \in 1 .. MaxCalls}

ToolResponses ==
    {[content |-> "", tool_calls |-> p] : p \in ToolPlans}
    \cup {[content |-> c, tool_calls |-> <<>>] : c \in {"", "reply"}}

FirstModelCallTools ==
    /\ turn.pc = "model1"
    /\ \E response_message \in ToolResponses : FirstAnswer(response_message)
    /\ UNCHANGED <<storeVars, conversations, invocations, before, requests>>

\* The messages table when the request arrives: u1 has a conversation with
\* an earlier exchange, u2 has none.
PriorConversations == <<[id |-> 1, user_id |-> "u1"]>>

PriorMessages ==
    <<[conversation_id |-> 1, role |-> "user", content |-> "add a task"],
      [conversation_id |-> 1, role |-> "assistant", content |-> "reply"]>>

InitTools ==
    /\ tasks \in AddedTables
    /\ nextId = Len(tasks) + 1
    /\ last = NoLast
    /\ before = tasks
    /\ conversations = PriorConversations
    /\ messages = PriorMessages
    /\ invocations = <<>>
    /\ turn = NoTurn
    /\ response = NoResponse
    /\ requests = <<>>

NextTools ==
    \/ StartTurn
    \/ FirstModelCallTools
    \/ FirstModelCallFails
    \/ CallTool
    \/ CallToolUnreachable
    \/ SecondModelCall
    \/ SecondModelCallFails

SpecTools == InitTools /\ [][NextTools]_vars

\* A model response's tool calls, numbered as the tool call ids.
Plan(calls) ==
    [i \in 1 .. Len(calls) |-> [id |-> i, name |-> calls[i].name,
                                arguments |-> calls[i].arguments]]

\* First responses of a turn that is to list and then to delete: the list
\* alone, the list with a delete, a delete with an add, or a text.
RoundResponses ==
    {[content |-> "", tool_calls |-> Plan(p)] :
        p \in {<<[name |-> "list_tasks", arguments |-> NoArgs]>>,
               <<[name |-> "list_tasks", arguments |-> NoArgs],
                 [name |-> "delete_task", arguments |-> [task_position |-> 1]]>>,
               <<[name |-> "delete_task", arguments |-> [task_position |-> 1]],
                 [name |-> "add_task", arguments |-> [title |-> <<"a">>]]>>}}
    \cup {[content |-> "reply", tool_calls |-> <<>>]}

FirstModelCallRounds ==
    /\ turn.pc = "model1"
    /\ \E response_message \in RoundResponses : FirstAnswer(response_message)
    /\ UNCHANGED <<storeVars, conversations, invocations, before, requests>>

NextRounds ==
    \/ StartTurn
    \/ FirstModelCallRounds
    \/ FirstModelCallFails
    \/ CallTool
    \/ CallToolUnreachable
    \/ SecondModelCall
    \/ SecondModelCallFails

\* Every await of the turn returns or raises (the HTTP client and the model
\* client have timeouts), so a turn that can take a step takes one.
SpecRounds == InitTools /\ [][NextRounds]_vars /\ WF_vars(NextRounds)

(* ------------------------------ Tool loop ------------------------------ *)
(* The pass of the loop of lines 699-751 taken apart at its await: the     *)
(* request of call_mcp_tool is posted, the MCP server serves it, and the   *)
(* orchestrator goes on with the answer.  turn.net holds the requests      *)
(* that are posted and not yet taken back: the number n of the tool call,  *)
(* the tool, the body, and the server's answer once it is served.          *)

LoopCalls ==
    {[name |-> "add_task", arguments |-> [title |-> <<"a">>]],
     [name |-> "complete_task", arguments |-> [task_position |-> 1]],
     [name |-> "delete_task", arguments |-> [task_position |-> 1]],
     [name |-> "search_tasks", arguments |-> NoArgs]}

LoopPlans ==
    UNION {{[i \in 1 .. n |-> [id |-> i, name |-> p[i].name,
                                arguments |-> p[i].arguments]] :
               p \in [1 .. n -> LoopCalls]} : n \in 1 .. MaxCalls}

LoopResponses ==
    {[content |-> "", tool_calls |-> p] : p \in LoopPlans}
    \cup {[content |-> "reply", tool_calls |-> <<>>]}

FirstModelCallLoop ==
    /\ turn.pc = "model1"
    /\ \E response_message \in LoopResponses : FirstAnswer(response_message)
    /\ UNCHANGED <<storeVars, conversations, invocations, before, requests>>

\* Lines 327-333 of call_mcp_tool: the result made of the server's answer.
response_result(http) ==
    IF http.status # 200
    THEN [error |-> "Tool call failed", status |-> http.status,
          detail |-> http.detail]
    ELSE http.body

\* Lines 724-751 and, after the last pass, 753-771: the result is cached,
\* the invocation is saved and the loop goes on.
LoopDone(tool_call, function_args, tool_result, net) ==
    LET cache == [id \in DOMAIN turn.tool_results_cache \cup {tool_call.id} |->
                     IF id = tool_call.id THEN tool_result
                     ELSE turn.tool_results_cache[id]]
        finished == turn.i + 1 = Len(turn.tool_calls)
    IN /\ invocations' = save_tool_invocation_to_db(invocations,
                             turn.conversation_id, tool_call.name,
                             function_args, tool_result)
       /\ turn' = [turn EXCEPT
                      !.i = turn.i + 1,
                      !.tool_results_cache = cache,
                      !.pc = IF finished THEN "model2" ELSE "tools",
                      !.api_messages = IF finished THEN api_messages(turn, cache)
                                       ELSE <<>>,
                      !.net = net]

\* Lines 294-296 of call_mcp_tool: the call is position-addressed and
\* carries a task_id and no task_position.
needs_position(tool_name, tool_args) ==
    /\ tool_name \in {"update_task", "complete_task", "delete_task"}
    /\ Has(tool_args, "task_id")
    /\ ~Has(tool_args, "task_position")

\* Lines 303-305: task_id is replaced by task_position.
transformed_args(tool_args, position) ==
    [k \in (DOMAIN tool_args \ {"task_id"}) \cup {"task_position"} |->
        IF k = "task_position" THEN position ELSE tool_args[k]]

\* Faulty variant: the requests of all remaining tool calls are posted at
\* once, as by asyncio.gather.
SendTool_gather ==
    /\ turn.pc = "tools"
    /\ LET tool_call == turn.tool_calls[turn.i + 1]
           function_args == Inject(tool_call.arguments, turn.user_id)
       IN IF tool_call.name \notin tool_endpoints
          THEN LoopDone(tool_call, function_args,
                        call_mcp_tool(tasks, nextId, tool_call.name,
                                      function_args).result,
                        turn.net)
          ELSE /\ turn' = [turn EXCEPT
                              !.pc = "waiting",
                              !.net = @ \cup
                                  {[n |-> n, tool |-> turn.tool_calls[n].name,
                                    args |-> Inject(turn.tool_calls[n].arguments,
                                                    turn.user_id),
                                    http |-> <<>>] :
                                      n \in {m \in turn.i + 1 .. Len(turn.tool_calls) :
                                               turn.tool_calls[m].name
                                                   \in tool_endpoints}}]
               /\ UNCHANGED invocations
    /\ UNCHANGED <<storeVars, conversations, messages, response, before,
                   requests>>

\* Lines 699-721 and 274-323: the user id is injected and call_mcp_tool is
\* awaited.  A name without an endpoint is answered at once (lines 287-290);
\* for the others the request is posted and the turn waits for the answer.
SendTool ==
    /\ turn.pc = "tools"
    /\ ~needs_position(turn.tool_calls[turn.i + 1].name,
                       turn.tool_calls[turn.i + 1].arguments)
    /\ LET tool_call == turn.tool_calls[turn.i + 1]
           function_args == Inject(tool_call.arguments, turn.user_id)
       IN IF tool_call.name \notin tool_endpoints
          THEN LoopDone(tool_call, function_args,
                        call_mcp_tool(tasks, nextId, tool_call.name,
                                      function_args).result,
                        turn.net)
          ELSE /\ turn' = [turn EXCEPT
                              !.pc = "waiting",
                              !.net = @ \cup {[n |-> turn.i + 1,
                                              tool |-> tool_call.name,
                                              args |-> function_args,
                                              http |-> <<>>]}]
               /\ UNCHANGED invocations
    /\ UNCHANGED <<storeVars, conversations, messages, response, before,
                   requests>>

\* Faulty variant: the handler has scanned the table as it was when the
\* turn started and commits its change of that row to the table as it is
\* now, as a handler that is suspended between its scan and its commit.
ServeTool_stale_scan ==
    /\ \E m \in turn.net :
        /\ m.http = <<>>
        /\ LET r == mcp_post(before, nextId, m.tool, m.args)
               kept == {r.db[i].id : i \in 1 .. Len(r.db)}
           IN
            /\ tasks' = IF r.status # 200 THEN tasks
                        ELSE IF m.tool = "delete_task"
                        THEN SelectSeq(tasks, LAMBDA t :
                                 t.id \in kept \/ t.id >= Len(before) + 1)
                        ELSE IF m.tool \in {"update_task", "complete_task"}
                        THEN session_update(tasks, r.body.task)
                        ELSE IF m.tool = "add_task"
                        THEN Append(tasks, r.body.task)
                        ELSE tasks
            /\ nextId' = r.nid
            /\ last' = [tool |-> m.tool, status |-> r.status, detail |-> r.detail]
            /\ requests' = Append(requests, [tool |-> m.tool, args |-> m.args])
            /\ turn' = [turn EXCEPT
                           !.net = (@ \ {m}) \cup
                               {[m EXCEPT !.http = <<[status |-> r.status,
                                                      detail |-> r.detail,
                                                      body |-> r.body]>>]}]
    /\ UNCHANGED <<conversations, messages, invocations, response, before>>

\* The MCP server handles a posted request.
ServeTool ==
    /\ \E m \in turn.net :
        /\ m.http = <<>>
        /\ LET r == mcp_post(tasks, nextId, m.tool, m.args) IN
            /\ tasks' = r.db
            /\ nextId' = r.nid
            /\ last' = [tool |-> m.tool, status |-> r.status, detail |-> r.detail]
            /\ requests' = Append(requests, [tool |-> m.tool, args |-> m.args])
            /\ turn' = [turn EXCEPT
                           !.net = (@ \ {m}) \cup
                               {[m EXCEPT !.http = <<[status |-> r.status,
                                                      detail |-> r.detail,
                                                      body |-> r.body]>>]}]
    /\ UNCHANGED <<conversations, messages, invocations, response, before>>

\* Lines 325-333 and 724-751: the answer to the awaited request has come.
ReceiveTool ==
    /\ turn.pc = "waiting"
    /\ \E m \in turn.net :
        /\ m.n = turn.i + 1
        /\ m.http # <<>>
        /\ LoopDone(turn.tool_calls[m.n],
                    Inject(turn.tool_calls[m.n].arguments, turn.user_id),
                    response_result(m.http[1]),
                    turn.net \ {m})
    /\ UNCHANGED <<storeVars, conversations, messages, response, before,
                   requests>>

\* Lines 334-338: the HTTP client raises before the MCP server has the
\* awaited request.
DropTool ==
    /\ turn.pc = "waiting"
    /\ \E m \in turn.net :
        /\ m.n = turn.i + 1
        /\ m.http = <<>>
        /\ LoopDone(turn.tool_calls[m.n],
                    Inject(turn.tool_calls[m.n].arguments, turn.user_id),
                    call_mcp_tool_raised(tasks, nextId, m.tool, m.args).result,
                    turn.net \ {m})
    /\ UNCHANGED <<storeVars, conversations, messages, response, before,
                   requests>>

NextLoop ==
    \/ StartTurn
    \/ FirstModelCallLoop
    \/ FirstModelCallFails
    \/ SendTool
    \/ ServeTool
    \/ ReceiveTool
    \/ DropTool
    \/ SecondModelCall
    \/ SecondModelCallFails

SpecLoop == InitTools /\ [][NextLoop]_vars

(* --------------------------- Concurrent calls -------------------------- *)
(* The turn's requests and the requests of another client of the MCP       *)
(* server (n = 0 in turn.net), served in any order; and call_mcp_tool for  *)
(* a tool call that carries a task_id, which asks list_tasks for the       *)
(* position first.                                                         *)

\* First responses: a list followed by a position-addressed call, and
\* position-addressed calls that name the task by its id.
RaceResponses ==
    {[content |-> "", tool_calls |-> Plan(p)] :
        p \in {<<[name |-> "list_tasks", arguments |-> NoArgs],
                 [name |-> "delete_task", arguments |-> [task_position |-> 1]]>>,
               <<[name |-> "list_tasks", arguments |-> NoArgs],
                 [name |-> "complete_task", arguments |-> [task_position |-> 2]]>>,
               <<[name |-> "delete_task", arguments |-> [task_id |-> 2]]>>,
               <<[name |-> "complete_task", arguments |-> [task_id |-> 2]]>>,
               <<[name |-> "update_task",
                  arguments |-> [task_id |-> 2, title |-> <<"b">>]]>>}}

FirstModelCallRace ==
    /\ turn.pc = "model1"
    /\ \E response_message \in RaceResponses : FirstAnswer(response_message)
    /\ UNCHANGED <<storeVars, conversations, invocations, before, requests>>

\* Requests of the other client, for either owner.
OtherCalls ==
    {[tool |-> "delete_task", args |-> [task_position |-> 1, user_id |-> u]] :
        u \in Users}
    \cup {[tool |-> "add_task", args |-> [title |-> <<"c">>, user_id |-> u]] :
              u \in Users}

\* Another client posts a request to the MCP server while the turn is in
\* its tool-call loop; one such request per turn.
OtherPost ==
    /\ turn.pc \in {"tools", "lookup", "waiting"}
    /\ \A m \in turn.net : m.n # 0
    /\ \E c \in OtherCalls :
        turn' = [turn EXCEPT !.net = @ \cup {[n |-> 0, tool |-> c.tool,
                                              args |-> c.args, http |-> <<>>]}]
    /\ UNCHANGED <<storeVars, conversations, messages, invocations, response,
                   before, requests>>

\* Lines 296-301 of call_mcp_tool and 239-250 of get_task_position_from_id:
\* for a tool call with a task_id and no task_position, list_tasks is
\* posted for the injected user.
SendLookup ==
    /\ turn.pc = "tools"
    /\ LET tool_call == turn.tool_calls[turn.i + 1]
           function_args == Inject(tool_call.arguments, turn.user_id)
       IN /\ needs_position(tool_call.name, function_args)
          /\ turn' = [turn EXCEPT
                         !.pc = "lookup",
                         !.net = @ \cup {[n |-> turn.i + 1,
                                         tool |-> "list_tasks",
                                         args |-> [user_id |-> function_args.user_id],
                                         http |-> <<>>]}]
    /\ UNCHANGED <<storeVars, conversations, messages, invocations, response,
                   before, requests>>

\* Lines 251-268 and 302-323: the list has come.  The position of the task
\* with the id replaces the id and the tool's request is posted; without a
\* position the call ends with an error result.
ReceiveLookup ==
    /\ turn.pc = "lookup"
    /\ \E m \in turn.net :
        /\ m.n = turn.i + 1
        /\ m.http # <<>>
        /\ LET tool_call == turn.tool_calls[m.n]
               function_args == Inject(tool_call.arguments, turn.user_id)
               position == get_task_position_from_id(m.http[1],
                                                     function_args.task_id)
           IN IF position = None
              THEN LoopDone(tool_call, function_args,
                            [error |-> "Could not find task with ID"],
                            turn.net \ {m})
              ELSE /\ turn' = [turn EXCEPT
                                  !.pc = "waiting",
                                  !.net = (@ \ {m}) \cup
                                      {[n |-> m.n,
                                        tool |-> tool_call.name,
                                        args |-> transformed_args(function_args,
                                                                  position[1]),
                                        http |-> <<>>]}]
                   /\ UNCHANGED invocations
    /\ UNCHANGED <<storeVars, conversations, messages, response, before,
                   requests>>

\* Lines 269-271: the HTTP client raises before the MCP server has the
\* list request; there is no position.
DropLookup ==
    /\ turn.pc = "lookup"
    /\ \E m \in turn.net :
        /\ m.n = turn.i + 1
        /\ m.http = <<>>
        /\ LoopDone(turn.tool_calls[m.n],
                    Inject(turn.tool_calls[m.n].arguments, turn.user_id),
                    [error |-> "Could not find task with ID"],
                    turn.net \ {m})
    /\ UNCHANGED <<storeVars, conversations, messages, response, before,
                   requests>>

NextRace ==
    \/ StartTurn
    \/ FirstModelCallRace
    \/ FirstModelCallFails
    \/ SendTool
    \/ SendLookup
    \/ ReceiveLookup
    \/ DropLookup
    \/ ServeTool
    \/ ReceiveTool
    \/ DropTool
    \/ OtherPost
    \/ SecondModelCall
    \/ SecondModelCallFails

SpecRace == InitTools /\ [][NextRace]_vars

(* ---------------------------- Chat requests ---------------------------- *)
(* Chat requests one after another and at the same time.  chat_endpoint is *)
(* a coroutine of one event loop: another request runs only while the turn *)
(* is suspended at an await.  Between the select of line 414 and the       *)
(* commit of line 425 there is no await (the session is synchronous), so   *)
(* finding or creating the conversation is one step.                       *)

\* Number of chat requests that save a user message.
MaxChats == 3

\* The chat requests that have saved their user message.
Chats == Len(SelectSeq(messages, LAMBDA m : m.role = "user"))

ChatResponses ==
    {[content |-> "reply", tool_calls |-> <<>>],
     [content |-> "", tool_calls |->
         <<[id |-> 1, name |-> "add_task", arguments |-> [title |-> <<"a">>]]>>]}

FirstModelCallChats ==
    /\ turn.pc = "model1"
    /\ \E response_message \in ChatResponses : FirstAnswer(response_message)
    /\ UNCHANGED <<storeVars, conversations, invocations, before, requests>>

\* Faulty variant: the select ran before the latest conversation was
\* committed, as when the handler is suspended between select and commit.
OtherChat_stale_select ==
    /\ Chats < MaxChats
    /\ \E user_id \in Users, message \in ChatMessages :
        LET seen == SubSeq(conversations, 1, Len(conversations) - 1)
            found == SelectSeq(seen, LAMBDA c : c.user_id = user_id)
            conversation == IF found # <<>> THEN found[1]
                            ELSE [id |-> Len(conversations) + 1,
                                  user_id |-> user_id]
        IN /\ conversations' = IF found # <<>> THEN conversations
                               ELSE Append(conversations, conversation)
           /\ messages' = save_message_to_db(messages, conversation.id, "user",
                                             message)
    /\ UNCHANGED <<storeVars, invocations, turn, response, before, requests>>

\* Lines 405-433 of another chat request, of any user, handled while the
\* turn is suspended or between turns: its conversation is found or
\* created and its user message is saved.
OtherChat ==
    /\ Chats < MaxChats
    /\ \E user_id \in Users, message \in ChatMessages :
        LET found == SelectSeq(conversations, LAMBDA c : c.user_id = user_id)
            conversation == IF found # <<>> THEN found[1]
                            ELSE [id |-> Len(conversations) + 1,
                                  user_id |-> user_id]
        IN /\ conversations' = IF found # <<>> THEN conversations
                               ELSE Append(conversations, conversation)
           /\ messages' = save_message_to_db(messages, conversation.id, "user",
                                             message)
    /\ UNCHANGED <<storeVars, invocations, turn, response, before, requests>>

\* The response is returned and the next chat request arrives.
NextChat ==
    /\ turn.pc = "done"
    /\ Chats < MaxChats
    /\ turn' = NoTurn
    /\ response' = NoResponse
    /\ UNCHANGED <<storeVars, conversations, messages, invocations, before,
                   requests>>

NextChats ==
    \/ StartTurn
    \/ OtherChat
    \/ FirstModelCallChats
    \/ FirstModelCallFails
    \/ CallTool
    \/ SecondModelCall
    \/ SecondModelCallFails
    \/ NextChat

SpecChats == Init /\ [][NextChats]_vars

(* ------------------------------ TodoAgent ------------------------------ *)
(* process_message of src/backend/ai_agent/agent.py: the same turn, run by *)
(* the agent class for a caller that passes the authenticated user's id.   *)

\* Lines 335-337: user_id is added to the arguments if they have none.
agent_function_args(args, user_id) ==
    IF Has(args, "user_id") THEN args ELSE Inject(args, user_id)

\* TodoAgent.call_mcp_tool, lines 283-301: the parameters go into the query
\* string of a POST without a body, and the JSON of the answer is the result
\* whatever its status.  The request models of the MCP server are read from
\* the body, so the server answers 422 before a handler runs.
agent_call_mcp_tool(db, nid, tool_name, params) ==
    LET http == mcp_post(db, nid, tool_name, NoArgs) IN
    [result |-> IF http.status # 200 THEN [detail |-> http.detail]
                ELSE http.body,
     sent |-> TRUE,
     http |-> http]

AgentCalls ==
    {[name |-> "list_tasks", arguments |-> NoArgs],
     [name |-> "list_tasks", arguments |-> [user_id |-> "u2"]],
     [name |-> "delete_task", arguments |-> [task_position |-> 1]],
     [name |-> "delete_task",
      arguments |-> [task_position |-> 1, user_id |-> "u2"]]}

AgentPlans ==
    UNION {{[i \in 1 .. n |-> [id |-> i, name |-> p[i].name,
                                arguments |-> p[i].arguments]] :
               p \in [1 .. n -> AgentCalls]} : n \in 1 .. MaxCalls}

\* Lines 303-313: process_message is entered and the messages are prepared.
AgentStart ==
    /\ turn.pc = "new"
    /\ \E user_id \in Users, user_message \in ChatMessages :
        turn' = [NoTurn EXCEPT
                    !.pc = "agent_model1",
                    !.user_id = user_id,
                    !.message = user_message,
                    !.messages = <<[role |-> "system",
                                    content |-> "system_instructions"],
                                   [role |-> "user", content |-> user_message]>>]
    /\ UNCHANGED <<storeVars, conversations, messages, invocations, response,
                   before, requests>>

\* Lines 315-327 and 357-359: the first model call answers, with tool calls
\* or with the text that process_message returns.
AgentFirstModelCall ==
    /\ turn.pc = "agent_model1"
    /\ \/ \E plan \in AgentPlans :
            /\ turn' = [turn EXCEPT
                           !.pc = "agent_tools",
                           !.tool_calls = plan,
                           !.api_messages =
                               turn.messages
                               \o <<[role |-> "assistant", content |-> "",
                                     tool_calls |-> plan]>>]
            /\ UNCHANGED response
       \/ \E content \in {"", "reply"} :
            /\ turn' = [turn EXCEPT !.pc = "done"]
            /\ response' = [NoResponse EXCEPT !.message = content]
    /\ UNCHANGED <<storeVars, conversations, messages, invocations, before,
                   requests>>

\* Lines 331-347, one pass of the loop.
AgentCallTool ==
    /\ turn.pc = "agent_tools"
    /\ LET tool_call == turn.tool_calls[turn.i + 1]
           function_name == tool_call.name
           function_args == agent_function_args(tool_call.arguments, turn.user_id)
           c == agent_call_mcp_tool(tasks, nextId, function_name, function_args)
       IN /\ tasks' = c.http.db
          /\ nextId' = c.http.nid
          /\ last' = [tool |-> function_name, status |-> c.http.status,
                      detail |-> c.http.detail]
          /\ requests' = Append(requests, [tool |-> function_name,
                                           args |-> function_args])
          /\ turn' = [turn EXCEPT
                         !.i = turn.i + 1,
                         !.pc = IF turn.i + 1 = Len(turn.tool_calls)
                                THEN "agent_model2" ELSE "agent_tools",
                         !.api_messages =
                             Append(turn.api_messages,
                                    [tool_call_id |-> tool_call.id,
                                     role |-> "tool",
                                     name |-> function_name,
                                     content |-> json_dumps(c.result)])]
    /\ UNCHANGED <<conversations, messages, invocations, response, before>>

\* Lines 350-355: the second model call; its text is returned.
AgentSecondModelCall ==
    /\ turn.pc = "agent_model2"
    /\ \E content \in {"", "reply"} :
        /\ turn' = [turn EXCEPT !.pc = "done"]
        /\ response' = [NoResponse EXCEPT !.message = content]
    /\ UNCHANGED <<storeVars, conversations, messages, invocations, before,
                   requests>>

NextAgent ==
    \/ AgentStart
    \/ AgentFirstModelCall
    \/ AgentCallTool
    \/ AgentSecondModelCall

SpecAgent == InitTurn /\ [][NextAgent]_vars

(* ------------------------- vocabulary of the claims -------------------- *)

\* The owner's tasks in the order of the table.
ScanOf(db, u) == SelectSeq(db, LAMBDA t : t.user_id = u)

\* The table without the row `id`, and with the row `id` replaced by `row`.
Without(db, id) == SelectSeq(db, LAMBDA t : t.id # id)

Replaced(db, id, row) ==
    [i \in 1 .. Len(db) |-> IF db[i].id = id THEN row ELSE db[i]]

Range(seq) == {seq[i] : i \in 1 .. Len(seq)}

\* A title that is empty or consists of whitespace only.
Blank(title) == \A i \in 1 .. Len(title) : title[i] = " "

ListOf(db, u) == list_tasks_tool(db, 0, [user_id |-> u])

\* The <<task id, position>> pairs of a list_tasks body.
PositionsIn(body) == {<<e.task.id, e.position>> : e \in Range(body.tasks)}

\* The row update_task is to leave behind for request q on row t.
Updated(t, q) ==
    [t EXCEPT !.title = IF q.title = None THEN t.title ELSE q.title[1],
              !.description = IF q.description = None THEN t.description
                              ELSE q.description[1]]

(* -------------------------------- C1 ----------------------------------- *)

\* C1: for an owner with N tasks and any position k, get_task_by_position,
\* update_task, complete_task and delete_task at k succeed and act on the k-th
\* task of the owner's scan iff 1 <= k <= N; for every other k they fail and
\* the tasks table is left as it was.
C1_PositionInRangeIff ==
    \A u \in Users, k \in Positions \cup {-1} :
        LET scan == ScanOf(tasks, u)
            g == get_task_by_position(tasks, u, k)
            d == delete_task_tool(tasks, nextId, [task_position |-> k, user_id |-> u])
            c(v) == complete_task_tool(tasks, nextId,
                        [task_position |-> k, user_id |-> u, completed |-> v])
            up(q) == update_task_tool(tasks, nextId, q)
            mine == {[task_position |-> k, user_id |-> u, title |-> t,
                      description |-> e] :
                         <<t, e>> \in (UpdateTitles \X UpdateDescriptions)
                                          \ {<<None, None>>}}
        IN IF 1 <= k /\ k <= Len(scan)
           THEN /\ g.status = 200 /\ g.body.task = scan[k]
                /\ d.status = 200 /\ d.db = Without(tasks, scan[k].id)
                /\ \A v \in BOOLEAN :
                       /\ c(v).status = 200
                       /\ c(v).db = Replaced(tasks, scan[k].id,
                                             [scan[k] EXCEPT !.completed = v])
                /\ \A q \in mine :
                       /\ up(q).status = 200
                       /\ up(q).db = Replaced(tasks, scan[k].id, Updated(scan[k], q))
           ELSE /\ g.status # 200
                /\ d.status # 200 /\ d.db = tasks
                /\ \A v \in BOOLEAN : c(v).status # 200 /\ c(v).db = tasks
                /\ \A q \in mine : up(q).status # 200 /\ up(q).db = tasks

\* A delete_task at a position out of range has just failed on a table that
\* holds tasks.
C1_Witness ==
    /\ last.tool = "delete_task"
    /\ last.status \notin {0, 200, 400}
    /\ tasks # <<>>

(* -------------------------------- C5 ----------------------------------- *)

\* A list_tasks call has just answered.  The answer is a function of the
\* table, and list_tasks can be called on every table, so what holds of the
\* answers in these states holds of list_tasks on every reachable table.
Listed == last.tool = "list_tasks" /\ last.status = 200

\* C5: list_tasks tags the owner's tasks with the positions 1..N in the order
\* they were added (ids grow with every add), and no complete_task or
\* update_task call of the owner changes the position that the next list_tasks
\* reports for any of the owner's tasks.
C5_PositionsStable ==
    Listed =>
        \A u \in Users :
            LET scan == ScanOf(tasks, u)
                l == ListOf(tasks, u)
                after(r) == PositionsIn(ListOf(r.db, u).body)
            IN /\ PositionsIn(l.body) = {<<scan[i].id, i>> : i \in 1 .. Len(scan)}
               /\ \A i, j \in 1 .. Len(scan) : i < j => scan[i].id < scan[j].id
               /\ \A k \in Positions, v \in BOOLEAN :
                      after(complete_task_tool(tasks, nextId,
                                [task_position |-> k, user_id |-> u, completed |-> v]))
                          = PositionsIn(l.body)
               /\ \A k \in Positions, t \in UpdateTitles, e \in UpdateDescriptions :
                      after(update_task_tool(tasks, nextId,
                                [task_position |-> k, user_id |-> u, title |-> t,
                                 description |-> e]))
                          = PositionsIn(l.body)

\* An owner has three tasks, the second one completed by the call just served
\* and the other two pending.
C5_Witness ==
    /\ last.tool = "complete_task"
    /\ last.status = 200
    /\ \E u \in Users :
           LET scan == ScanOf(tasks, u) IN
           /\ Len(scan) = 3
           /\ ~scan[1].completed /\ scan[2].completed /\ ~scan[3].completed

(* -------------------------------- C6 ----------------------------------- *)

\* C6: the sequence list_tasks returns holds every task of the owner exactly
\* once, the pending ones before the completed ones, each group by ascending
\* position; an entry's position is its index in the scan, not in the returned
\* sequence, so get_task_by_position at that position yields the same task.
C6_ListGroupsKeepScanPositions ==
    Listed =>
        \A u \in Users :
            LET scan == ScanOf(tasks, u)
                out == ListOf(tasks, u).body.tasks
            IN /\ Len(out) = Len(scan)
               /\ \A i \in 1 .. Len(scan) :
                      \E n \in 1 .. Len(out) :
                          out[n].task = scan[i] /\ out[n].position = i
               /\ \A m, n \in 1 .. Len(out) :
                      m < n =>
                          /\ out[m].task.completed => out[n].task.completed
                          /\ out[m].task.completed = out[n].task.completed
                                 => out[m].position < out[n].position
               /\ \A n \in 1 .. Len(out) :
                      LET g == get_task_by_position(tasks, u, out[n].position) IN
                      g.status = 200 /\ g.body.task = out[n].task

\* list_tasks has just answered for a table in which an owner's completed task
\* precedes a pending one in the scan, so that the returned order differs from
\* the scan order.
C6_Witness ==
    /\ last.tool = "list_tasks"
    /\ last.status = 200
    /\ \E u \in Users :
           LET scan == ScanOf(tasks, u) IN
           /\ Len(scan) >= 2
           /\ scan[1].completed /\ ~scan[2].completed
           /\ ListOf(tasks, u).body.tasks[1].position = 2

(* -------------------------------- C7 ----------------------------------- *)

\* C7: the summary of list_tasks counts the owner's tasks: total is their
\* number, pending and completed the numbers with the flag false and true,
\* total = pending + completed; an owner without tasks gets a successful
\* answer with the empty sequence and three zero counts.
C7_SummaryCounts ==
    Listed =>
        \A u \in Users :
            LET l == ListOf(tasks, u)
                own == {i \in 1 .. Len(tasks) : tasks[i].user_id = u}
                done == {i \in own : tasks[i].completed}
            IN /\ l.status = 200
               /\ l.body.success
               /\ l.body.summary.total = Cardinality(own)
               /\ l.body.summary.completed = Cardinality(done)
               /\ l.body.summary.pending = Cardinality(own \ done)
               /\ l.body.summary.total
                      = l.body.summary.pending + l.body.summary.completed
               /\ own = {} =>
                      /\ l.body.tasks = <<>>
                      /\ l.body.summary
                             = [total |-> 0, pending |-> 0, completed |-> 0]

\* list_tasks has just answered while one owner has no task and the other has
\* a pending and a completed one.
C7_Witness ==
    /\ last.tool = "list_tasks"
    /\ last.status = 200
    /\ \E u, w \in Users :
           /\ ScanOf(tasks, u) = <<>>
           /\ \E i, j \in 1 .. Len(tasks) :
                  /\ tasks[i].user_id = w /\ tasks[j].user_id = w
                  /\ tasks[i].completed /\ ~tasks[j].completed

(* -------------------------------- C8 ----------------------------------- *)

\* C8: when tasks have only been added (SpecAdd), the k tasks of an owner are
\* listed as k pending tasks at the positions 1..k in the order they were
\* added, none completed, with summary {k, k, 0}; and every successful
\* add_task appends one pending task at the last position of its owner and
\* moves no other task.
C8_AddsListInOrder ==
    /\ \A u \in Users :
           LET l == ListOf(tasks, u).body
               k == Cardinality({i \in 1 .. Len(tasks) : tasks[i].user_id = u})
           IN /\ Len(l.tasks) = k
              /\ l.completed_tasks = <<>>
              /\ l.summary = [total |-> k, pending |-> k, completed |-> 0]
              /\ \A n \in 1 .. k :
                     /\ l.tasks[n].position = n
                     /\ ~l.tasks[n].task.completed
                     /\ l.tasks[n].task.user_id = u
                     /\ \A m \in 1 .. k : m < n => l.tasks[m].task.id < l.tasks[n].task.id
    /\ Len(tasks) = nextId - 1
    /\ \A q \in AddTaskRequest :
           LET r == add_task_tool(tasks, nextId, q) IN
           r.status = 200 =>
               /\ r.body.task.completed = FALSE
               /\ r.body.task.id \notin {tasks[i].id : i \in 1 .. Len(tasks)}
               /\ \A u \in Users :
                      LET old == PositionsIn(ListOf(tasks, u).body)
                          new == PositionsIn(ListOf(r.db, u).body)
                      IN new = IF u = q.user_id
                               THEN old \cup {<<r.body.task.id, Len(ScanOf(tasks, u)) + 1>>}
                               ELSE old

\* list_tasks has just answered for a table built by two add_task calls of one
\* owner.
C8_Witness ==
    /\ last.tool = "list_tasks"
    /\ last.status = 200
    /\ \E u \in Users : Len(ScanOf(tasks, u)) = 2 /\ Len(tasks) = 2

(* -------------------------------- C9 ----------------------------------- *)

\* C9: update_task with neither title nor description fails with a validation
\* error (status 400) and leaves the table as it was, at every position, in
\* range or not.
C9_UpdateNeedsAField ==
    \A u \in UserIds, k \in Positions :
        LET r == update_task_tool(tasks, nextId,
                     [task_position |-> k, user_id |-> u,
                      title |-> None, description |-> None])
        IN r.status = 400 /\ r.db = tasks /\ r.nid = nextId

\* update_task has just been refused for want of a field, on a table that
\* holds tasks.
C9_Witness ==
    /\ last.tool = "update_task"
    /\ last.status = 400
    /\ last.detail = "At least one field must be provided"
    /\ tasks # <<>>

(* -------------------------------- C10 ---------------------------------- *)

\* C10: add_task with an empty or whitespace-only title, or with an empty
\* owner, fails with a validation error (status 400) and creates no row.
C10_AddValidates ==
    \A q \in AddTaskRequest :
        LET r == add_task_tool(tasks, nextId, q) IN
        (Blank(q.title) \/ q.user_id = "") =>
            r.status = 400 /\ r.db = tasks /\ r.nid = nextId

\* add_task has just been refused for its title, on a table that holds tasks.
C10_Witness ==
    /\ last.tool = "add_task"
    /\ last.status = 400
    /\ last.detail = "Title is required"
    /\ tasks # <<>>

(* ---------------------------- C2, C3, C4 ------------------------------- *)

\* The turn's tool calls are delete_task calls at the positions ps[1], ps[2], ...
DeletesAt(ps) ==
    /\ Len(turn.tool_calls) = Len(ps)
    /\ \A n \in 1 .. Len(ps) :
           /\ turn.tool_calls[n].name = "delete_task"
           /\ turn.tool_calls[n].arguments.task_position = ps[n]

Descending(N) == [n \in 1 .. N |-> N + 1 - n]

Ascending(N) == [n \in 1 .. N |-> n]

\* The n-th tool call of the turn has been executed and has succeeded.
Succeeded(n) ==
    LET result == turn.tool_results_cache[turn.tool_calls[n].id] IN
    Has(result, "success") /\ result.success

\* The elements of seq at the indices in keep, in order.
RECURSIVE KeepFrom(_, _, _)
KeepFrom(seq, p, keep) ==
    IF p > Len(seq) THEN <<>>
    ELSE (IF p \in keep THEN <<seq[p]>> ELSE <<>>) \o KeepFrom(seq, p + 1, keep)

\* C2: for an owner with N tasks and no other client, the delete_task calls at
\* the positions N, N-1, ..., 1 all succeed, the call at position p removes
\* exactly the task that held position p when the turn started, and a
\* list_tasks after the last one returns no task.
C2_DescendingDeletesAll ==
    LET u == turn.user_id
        scan0 == ScanOf(before, u)
        N == Len(scan0)
    IN (turn.pc # "new" /\ N >= 1 /\ DeletesAt(Descending(N))) =>
           /\ \A n \in 1 .. turn.i : Succeeded(n)
           /\ ScanOf(tasks, u) = SubSeq(scan0, 1, N - turn.i)
           /\ \A w \in Users \ {u} : ScanOf(tasks, w) = ScanOf(before, w)
           /\ turn.i = N =>
                  /\ ListOf(tasks, u).body.tasks = <<>>
                  /\ ListOf(tasks, u).body.summary.total = 0

\* A turn of an owner of three tasks has answered after delete_task at 3, 2, 1
\* and the owner has no task left.
C2_Witness ==
    /\ turn.pc = "done"
    /\ response.status = 200
    /\ Len(ScanOf(before, turn.user_id)) = 3
    /\ DeletesAt(<<3, 2, 1>>)
    /\ ScanOf(tasks, turn.user_id) = <<>>

\* The positions of the delete_task calls issued so far, in the order issued.
IssuedDeletes ==
    LET dels == SelectSeq(invocations, LAMBDA v : v.tool_name = "delete_task")
    IN [n \in 1 .. Len(dels) |-> dels[n].parameters.task_position]

\* C3: whatever order the model returned them in, the delete_task calls of a
\* turn reach the task store in strictly descending position order, and a
\* turn whose calls are delete_task at each position of the owner's three
\* tasks leaves the owner without tasks.
C3_DeletesIssuedDescending ==
    /\ \A m, n \in 1 .. Len(IssuedDeletes) :
           m < n => IssuedDeletes[m] > IssuedDeletes[n]
    /\ \A ps \in {<<3, 2, 1>>, <<1, 2, 3>>, <<2, 1, 3>>, <<1, 3, 2>>,
                  <<2, 3, 1>>, <<3, 1, 2>>} :
           (/\ turn.pc = "done"
            /\ response.status = 200
            /\ Len(ScanOf(before, turn.user_id)) = 3
            /\ DeletesAt(ps))
               => ScanOf(tasks, turn.user_id) = <<>>

\* C4: for an owner with N >= 2 tasks and no other client, the delete_task
\* calls at the positions 1, 2, ..., N in that order do not empty the list: the
\* j-th call succeeds iff 2j-1 <= N and then removes the task that held
\* position 2j-1 when the turn started, which for j >= 2 is not the task that
\* held position j; the later calls fail, and the tasks of the even positions
\* remain.
C4_AscendingLeavesTasks ==
    LET u == turn.user_id
        scan0 == ScanOf(before, u)
        N == Len(scan0)
        gone == {2 * j - 1 : j \in 1 .. turn.i} \cap (1 .. N)
    IN (turn.pc # "new" /\ N >= 2 /\ DeletesAt(Ascending(N))) =>
           /\ \A j \in 1 .. turn.i : Succeeded(j) <=> 2 * j - 1 <= N
           /\ ScanOf(tasks, u) = KeepFrom(scan0, 1, (1 .. N) \ gone)
           /\ \A j \in 2 .. turn.i :
                  Succeeded(j) => scan0[2 * j - 1].id # scan0[j].id
           /\ \A w \in Users \ {u} : ScanOf(tasks, w) = ScanOf(before, w)
           /\ turn.i = N => Len(ScanOf(tasks, u)) >= 1

\* A turn of an owner of three tasks has answered after delete_task at 1, 2, 3:
\* the second call removed the third task, the third call failed, and the
\* second task is still there.
C4_Witness ==
    /\ turn.pc = "done"
    /\ response.status = 200
    /\ Len(ScanOf(before, turn.user_id)) = 3
    /\ DeletesAt(<<1, 2, 3>>)
    /\ Succeeded(2) /\ ~Succeeded(3)
    /\ ScanOf(tasks, turn.user_id) = <<ScanOf(before, turn.user_id)[2]>>

(* -------------------------------- C11 ---------------------------------- *)

\* C11 (as the claim states it): when update_task, complete_task or
\* delete_task has failed for a position outside 1..N, which in this
\* specification is every failure other than the validation error 400, the
\* failure reported is the not-found error 404.
C11_OutOfRangeIsNotFound ==
    (/\ last.tool \in {"update_task", "complete_task", "delete_task"}
     /\ last.status \notin {0, 200, 400})
        => last.status = 404

(* -------------------------------- C12 ---------------------------------- *)

\* C12: for every owner, every valid position k and every value v,
\* complete_task(k, v) called twice in a row succeeds both times, the task's
\* completion flag is v after the first call and after the second, and no
\* other field or task differs from the table before the calls.
C12_CompleteIdempotent ==
    \A u \in Users, v \in BOOLEAN :
        LET scan == ScanOf(tasks, u) IN
        \A k \in 1 .. Len(scan) :
            LET q == [task_position |-> k, user_id |-> u, completed |-> v]
                first == complete_task_tool(tasks, nextId, q)
                second == complete_task_tool(first.db, first.nid, q)
                want == Replaced(tasks, scan[k].id, [scan[k] EXCEPT !.completed = v])
            IN /\ first.status = 200 /\ first.body.task.completed = v
               /\ first.db = want
               /\ second.status = 200 /\ second.body.task.completed = v
               /\ second.db = want

\* A complete_task call has just succeeded and left a completed task among
\* other tasks: the same call again is the second call of the claim.
C12_Witness ==
    /\ last.tool = "complete_task" /\ last.status = 200
    /\ Len(tasks) >= 2
    /\ \E i \in 1 .. Len(tasks) : tasks[i].completed

(* -------------------------------- C13 ---------------------------------- *)

\* C13 (as the claim states it): every request a turn sends to the task store
\* names the authenticated user of the turn as owner, whatever user_id the
\* model put into the tool arguments.
C13_OwnerIsAuthenticatedUser ==
    \A n \in 1 .. Len(requests) : requests[n].args.user_id = turn.user_id

(* -------------------------------- C14 ---------------------------------- *)

\* The result payload of a tool call that failed.
Failed(result) == "error" \in DOMAIN result

\* The last row of the messages table is the assistant's reply of the turn.
ReplyPersisted ==
    /\ messages # <<>>
    /\ messages[Len(messages)] =
           [conversation_id |-> turn.conversation_id, role |-> "assistant",
            content |-> response.message]

\* The failure response of a turn whose second model call raised.
SecondCallFailure ==
    {outer_except(http_str(500, "Error calling AI model for final response: " \o e)) :
        e \in ModelErrors}

\* C14: a tool call that fails (not found, validation, unknown tool, MCP
\* server out of reach) is recorded as the result of that call and is not
\* raised: the calls of the turn are executed one after the other in the
\* model's order, after the last one the second model call is made with all
\* results, and a turn with a failed tool call ends with a persisted
\* assistant reply unless the second model call itself raises.
C14_ToolFailureIsAResult ==
    /\ Len(invocations) = turn.i
    /\ \A j \in 1 .. turn.i :
           /\ invocations[j].tool_name = turn.tool_calls[j].name
           /\ invocations[j].parameters =
                  Inject(turn.tool_calls[j].arguments, turn.user_id)
           /\ turn.tool_results_cache[turn.tool_calls[j].id] = invocations[j].result
    /\ turn.pc = "tools" =>
           /\ turn.i < Len(turn.tool_calls)
           /\ response = NoResponse
    /\ (turn.pc \in {"model2", "done"} /\ turn.tool_calls # <<>>) =>
           /\ turn.i = Len(turn.tool_calls)
           /\ Len(turn.api_messages) = Len(turn.messages) + 1 + Len(turn.tool_calls)
    /\ (turn.pc = "done" /\ \E j \in 1 .. turn.i : Failed(invocations[j].result)) =>
           \/ response.status = 200 /\ ReplyPersisted
           \/ response.status = 500 /\ response.detail \in SecondCallFailure

\* A turn has ended with a persisted reply after its first tool call, for a
\* tool that does not exist, failed and its second tool call succeeded.
C14_Witness ==
    /\ turn.pc = "done" /\ response.status = 200 /\ ReplyPersisted
    /\ Len(invocations) = 2
    /\ invocations[1].result = [error |-> "Unknown tool"]
    /\ "success" \in DOMAIN invocations[2].result

(* -------------------------------- C15 ---------------------------------- *)

\* The tool call whose result this is got to the MCP server.
Reached(result) ==
    result \notin {[error |-> "Unknown tool"], [error |-> "Failed to call tool"]}

\* The number of recorded invocations of `tool_name` that succeeded.
Successes(tool_name) ==
    Cardinality({j \in 1 .. Len(invocations) :
                    /\ invocations[j].tool_name = tool_name
                    /\ ~Failed(invocations[j].result)})

\* C15: each tool call the model asked for is executed once and never again,
\* also after a failure: the MCP server has received exactly one request for
\* every call that got to it, in the order of the calls, the tasks table has
\* gained one row per successful add_task and lost one per successful
\* delete_task, and the messages of the second model call end with one tool
\* message per tool call, the n-th carrying the identifier of the n-th call
\* and the recorded result of that call.
C15_EachCallOnceEachResultOnce ==
    LET reached == SelectSeq(invocations, LAMBDA v : Reached(v.result))
        calls == turn.tool_calls
        base == Len(turn.messages) + 1
    IN /\ Len(invocations) = turn.i
       /\ requests = [j \in 1 .. Len(reached) |->
                         [tool |-> reached[j].tool_name,
                          args |-> reached[j].parameters]]
       /\ Len(tasks) = Len(before) + Successes("add_task") - Successes("delete_task")
       /\ (turn.pc \in {"model2", "done"} /\ calls # <<>>) =>
              /\ Len(invocations) = Len(calls)
              /\ Len(turn.api_messages) = base + Len(calls)
              /\ \A n \in 1 .. base : turn.api_messages[n].role # "tool"
              /\ \A n \in 1 .. Len(calls) :
                     turn.api_messages[base + n] =
                         [role |-> "tool",
                          content |-> json_dumps(invocations[n].result),
                          tool_call_id |-> calls[n].id]

\* The second model call is about to be made after two tool calls with
\* different results, the first of them a failure.
C15_Witness ==
    /\ turn.pc = "model2"
    /\ Len(invocations) = 2
    /\ Failed(invocations[1].result)
    /\ invocations[1].result # invocations[2].result

(* -------------------------------- C16 ---------------------------------- *)

\* The text `sub` occurs in the text `s`.
Contains(s, sub) ==
    \E k \in 1 .. (Len(s) - Len(sub) + 1) : SubSeq(s, k, k + Len(sub) - 1) = sub

\* The texts the second model call can answer with.
SecondTexts == {r.content : r \in SecondResponses} \ {""}

\* C16 (as the claim states it): when a turn with tool calls ends with a reply
\* that is not text of the second model call, the reply names the number of
\* tool operations of the turn.
C16_NoTextNamesTheCount ==
    (/\ turn.pc = "done" /\ response.status = 200
     /\ turn.tool_calls # <<>>
     /\ response.message \notin SecondTexts)
        => Contains(response.message, ToString(Len(turn.tool_calls)))

(* -------------------------------- C17 ---------------------------------- *)

\* C17: when the first or the second model call has failed, the turn has
\* ended with a failure response without a reply, and the messages table is
\* the table before the turn plus the one user message of the turn.
C17_FailedCallSavesNoReply ==
    (turn.pc = "done" /\ response.status = 500) =>
        /\ response.message = ""
        /\ messages = Append(PriorMessages,
                             [conversation_id |-> turn.conversation_id,
                              role |-> "user", content |-> turn.message])

\* The second model call of a turn has failed after a tool call, in a
\* conversation that had messages before the turn.
C17_Witness ==
    /\ turn.pc = "done" /\ response.status = 500
    /\ turn.i > 0
    /\ turn.conversation_id = PriorMessages[1].conversation_id

(* -------------------------------- C18 ---------------------------------- *)

\* C18: the step in which the second model call fails leaves the tasks table
\* and the tool_invocations table as the tool calls of the turn left them:
\* nothing is rolled back.
C18_LateFailureKeepsCommits ==
    [][(turn.pc = "model2" /\ response'.status = 500) =>
          /\ tasks' = tasks
          /\ nextId' = nextId
          /\ invocations' = invocations
          /\ Len(invocations') = Len(turn.tool_calls)]_vars

\* The second model call has failed in a turn whose tool calls changed the
\* tasks table, and the change and the audit records are there.
C18_Witness ==
    /\ turn.pc = "done" /\ response.status = 500
    /\ tasks # before
    /\ Len(invocations) = 2
    /\ \A j \in 1 .. 2 : ~Failed(invocations[j].result)

(* -------------------------------- C19 ---------------------------------- *)

\* C19 (as the claim states it): the response of a failed turn holds no text
\* of the error that made it fail.
C19_FailureIsOpaque ==
    response.status = 500 =>
        \A e \in ModelErrors : ~Contains(response.detail, e)

(* -------------------------------- C20 ---------------------------------- *)

\* C20: when a chat request has been rejected because the authenticated user
\* is not the owner in the path, no conversation was created, no message was
\* saved, the messages for the model were never prepared and no model call
\* was made, no tool was called and no task was changed.
C20_RejectedBeforeAnyEffect ==
    response.status = 403 =>
        /\ conversations = PriorConversations
        /\ messages = PriorMessages
        /\ invocations = <<>>
        /\ requests = <<>>
        /\ tasks = before /\ nextId = Len(before) + 1
        /\ last = NoLast
        /\ turn = [NoTurn EXCEPT !.pc = "done"]

\* A request has been rejected while the tasks table holds tasks.
C20_Witness ==
    /\ response.status = 403
    /\ tasks # <<>>

(* -------------------------------- C21 ---------------------------------- *)

\* C21: in every table the server can be brought to by requests of the
\* owners in any order, an add, update, complete or delete made for owner A,
\* successful or not, leaves the tasks of every other owner B, their
\* positions and B's list_tasks answer as they were.
C21_OwnersIndependent ==
    \A A \in Users : \A B \in Users \ {A} :
        LET scanB == ScanOf(tasks, B)
            listB == ListOf(tasks, B).body
            Same(r) == \/ r.db = tasks
                       \/ /\ ScanOf(r.db, B) = scanB
                          /\ ListOf(r.db, B).body = listB
        IN /\ \A t \in AddTitles, d \in AddDescriptions :
                  Same(add_task_tool(tasks, nextId,
                           [title |-> t, description |-> d, user_id |-> A]))
           /\ \A k \in Positions :
                  /\ \A t \in UpdateTitles, d \in UpdateDescriptions :
                         Same(update_task_tool(tasks, nextId,
                                  [task_position |-> k, user_id |-> A,
                                   title |-> t, description |-> d]))
                  /\ \A v \in BOOLEAN :
                         Same(complete_task_tool(tasks, nextId,
                                  [task_position |-> k, user_id |-> A,
                                   completed |-> v]))
                  /\ Same(delete_task_tool(tasks, nextId,
                              [task_position |-> k, user_id |-> A]))

\* A delete has just succeeded in a table where both owners have tasks, the
\* first row not being u1's.
C21_Witness ==
    /\ last.tool = "delete_task" /\ last.status = 200
    /\ \A u \in Users : ScanOf(tasks, u) # <<>>
    /\ tasks[1].user_id = "u2"

(* -------------------------------- C28 ---------------------------------- *)

\* C28: a successful delete_task at position k of an owner with N tasks
\* removes the task at position k and nothing else: the owner then has N - 1
\* tasks, the tasks below k keep their positions, the tasks above k move down
\* by one, and every remaining row of the table is the row it was.
C28_DeleteShiftsLaterPositions ==
    \A u \in Users :
        LET scan == ScanOf(tasks, u) IN
        \A k \in 1 .. Len(scan) :
            LET r == delete_task_tool(tasks, nextId,
                                      [task_position |-> k, user_id |-> u])
                after == ScanOf(r.db, u)
                listed == ListOf(r.db, u).body
            IN /\ r.status = 200
               /\ Len(r.db) = Len(tasks) - 1
               /\ Len(after) = Len(scan) - 1
               /\ \A j \in 1 .. (k - 1) : after[j] = scan[j]
               /\ \A j \in (k + 1) .. Len(scan) : after[j - 1] = scan[j]
               /\ PositionsIn(listed) =
                      {<<scan[j].id, j>> : j \in 1 .. (k - 1)}
                      \cup {<<scan[j].id, j - 1>> : j \in (k + 1) .. Len(scan)}
               /\ Range(r.db) = Range(tasks) \ {scan[k]}
               /\ \A v \in Users \ {u} : ScanOf(r.db, v) = ScanOf(tasks, v)

\* A delete has just succeeded and has left an owner with two tasks or more:
\* in the table before it, that owner had tasks above and below a position.
C28_Witness ==
    /\ last.tool = "delete_task" /\ last.status = 200
    /\ \E u \in Users : Len(ScanOf(tasks, u)) >= 2

(* -------------------------------- C29 ---------------------------------- *)

\* The table with every description set to a text.
Described(db) == [i \in 1 .. Len(db) |-> [db[i] EXCEPT !.description = <<"d">>]]

\* C29: a successful update_task at position k changes the provided fields of
\* the task at position k to the provided values and nothing else: a field
\* that is not provided keeps its value, the task's id, owner and completion
\* flag stay, and every other row of the table is the row it was.  It is
\* checked on the table and on the table with descriptions filled in.
C29_UpdateChangesProvidedFields ==
    \A db \in {tasks, Described(tasks)} : \A u \in Users :
        LET scan == ScanOf(db, u) IN
        \A k \in 1 .. Len(scan) :
        \A q \in {r \in UpdateTaskRequest :
                      /\ r.user_id = u /\ r.task_position = k
                      /\ (r.title # None \/ r.description # None)} :
            LET r == update_task_tool(db, nextId, q)
                old == scan[k]
                new == ScanOf(r.db, u)[k]
            IN /\ r.status = 200
               /\ Len(r.db) = Len(db)
               /\ new.title = (IF q.title = None THEN old.title ELSE q.title[1])
               /\ new.description = (IF q.description = None THEN old.description
                                     ELSE q.description[1])
               /\ new.id = old.id /\ new.user_id = old.user_id
               /\ new.completed = old.completed
               /\ DOMAIN new = DOMAIN old
               /\ \A i \in 1 .. Len(db) : db[i].id # old.id => r.db[i] = db[i]

\* An update has just succeeded on a completed task that shares the table
\* with another task.
C29_Witness ==
    /\ last.tool = "update_task" /\ last.status = 200
    /\ Len(tasks) >= 2
    /\ \E i \in 1 .. Len(tasks) : tasks[i].completed /\ tasks[i].title = <<" ">>

(* -------------------------------- C30 ---------------------------------- *)

\* The role/content pairs of the messages the conversation had before the
\* turn.
PriorHistory ==
    LET own == SelectSeq(PriorMessages,
                         LAMBDA m : m.conversation_id = turn.conversation_id)
    IN [n \in 1 .. Len(own) |-> [role |-> own[n].role, content |-> own[n].content]]

\* C30 (as the claim states it): the messages of the first model call are the
\* system instructions, the messages of the prior turns and, once, as the
\* last message, the new user message.
C30_NewMessageOnce ==
    turn.pc \in {"model1", "tools", "model2"} =>
        turn.messages =
            <<[role |-> "system", content |-> "system_instructions"]>>
            \o PriorHistory
            \o <<[role |-> "user", content |-> turn.message]>>

(* -------------------------------- C25 ---------------------------------- *)

\* The result of a tool call carries the identifier of a task row.
ExposesId(result) ==
    \/ "task" \in DOMAIN result /\ "id" \in DOMAIN result.task
    \/ /\ "tasks" \in DOMAIN result
       /\ \E e \in Range(result.tasks) : "id" \in DOMAIN e.task

\* C25 (as the claim states it): no tool message among the messages of the
\* second model call carries the identifier of a task.
C25_NoTaskIdToModel ==
    \A n \in 1 .. Len(turn.api_messages) :
        turn.api_messages[n].role = "tool" =>
            ~ExposesId(turn.api_messages[n].content.json)

(* -------------------------------- C26 ---------------------------------- *)

\* The texts the first model call can answer with.
FirstTexts == {r.content : r \in ToolResponses} \ {""}

\* C26: a turn whose first model call asked for no tool has ended after that
\* one model call with the model's text (a stock sentence when it gave none)
\* as the saved and returned reply; it sent nothing to the MCP server, wrote
\* no tool invocation, left the tasks table as it was and reports no tool
\* calls.
C26_NoToolTurn ==
    (turn.pc \in {"model2", "done"} /\ turn.tool_calls = <<>>
     /\ response.status \notin {403, 500}) =>
        /\ turn.pc = "done" /\ response.status = 200
        /\ response.message \in FirstTexts \cup {"I processed your request."}
        /\ ReplyPersisted
        /\ Len(messages) = Len(PriorMessages) + 2
        /\ turn.api_messages = <<>>
        /\ requests = <<>> /\ invocations = <<>>
        /\ tasks = before /\ nextId = Len(before) + 1 /\ last = NoLast
        /\ response.tool_calls = <<>>

\* A turn without tool calls has ended with the model's text while the
\* tasks table holds tasks.
C26_Witness ==
    /\ turn.pc = "done" /\ response.status = 200
    /\ turn.tool_calls = <<>>
    /\ response.message \in FirstTexts
    /\ tasks # <<>>

(* -------------------------------- C27 ---------------------------------- *)

\* C27: the pass of the loop for a tool call whose name is none of add_task,
\* list_tasks, update_task, complete_task, delete_task records the result
\* "unknown tool" for it, sends nothing to the MCP server, leaves the tasks
\* table as it is and goes on to the next tool call, or to the second model
\* call after the last one.
C27_UnknownToolIsAResult ==
    [][(/\ turn.pc = "tools"
        /\ turn.tool_calls[turn.i + 1].name \notin
               {"add_task", "list_tasks", "update_task", "complete_task",
                "delete_task"}) =>
          /\ tasks' = tasks /\ nextId' = nextId /\ last' = last
          /\ requests' = requests
          /\ turn'.tool_results_cache[turn.tool_calls[turn.i + 1].id] =
                 [error |-> "Unknown tool"]
          /\ invocations' = Append(invocations,
                 [conversation_id |-> turn.conversation_id,
                  tool_name |-> turn.tool_calls[turn.i + 1].name,
                  parameters |-> Inject(turn.tool_calls[turn.i + 1].arguments,
                                        turn.user_id),
                  result |-> [error |-> "Unknown tool"]])
          /\ turn'.i = turn.i + 1
          /\ turn'.pc = (IF turn'.i < Len(turn.tool_calls) THEN "tools"
                         ELSE "model2")
          /\ response' = response]_vars

\* A tool call after the one for an unknown tool has been executed and has
\* changed the tasks table.
C27_Witness ==
    /\ Len(invocations) = 2
    /\ invocations[1].result = [error |-> "Unknown tool"]
    /\ ~Failed(invocations[2].result)
    /\ tasks # before

(* -------------------------------- C22 ---------------------------------- *)

\* The tool calls of the turn, by number, that have an endpoint.
Posted(upto) ==
    LET RECURSIVE from(_)
        from(n) == IF n > upto THEN <<>>
                   ELSE (IF turn.tool_calls[n].name \in tool_endpoints
                         THEN <<n>> ELSE <<>>) \o from(n + 1)
    IN from(1)

\* C22: at most one request of the turn is with the MCP server at a time, it
\* is the request of the tool call the loop is at, and every tool call
\* before it has its result; the MCP server has served the requests in the
\* order of the model's tool calls.
C22_OneToolAtATime ==
    /\ Cardinality(turn.net) <= 1
    /\ \A m \in turn.net :
        /\ turn.pc = "waiting"
        /\ m.n = turn.i + 1
        /\ m.tool = turn.tool_calls[m.n].name
        /\ \A j \in 1 .. m.n - 1 :
               turn.tool_calls[j].id \in DOMAIN turn.tool_results_cache
    /\ turn.pc \in {"tools", "waiting", "model2"} =>
        \E served \in SUBSET (1 .. Len(turn.tool_calls)) :
            /\ Len(requests) = Cardinality(served)
            /\ \A n \in served :
                /\ turn.tool_calls[n].name \in tool_endpoints
                /\ n <= turn.i + 1
                /\ LET at == Cardinality({j \in served : j <= n}) IN
                   requests[at] = [tool |-> turn.tool_calls[n].name,
                                   args |-> Inject(turn.tool_calls[n].arguments,
                                                   turn.user_id)]

\* The request of the second tool call is with the MCP server after the
\* first tool call has changed the tasks table.
C22_Witness ==
    /\ turn.pc = "waiting" /\ turn.i = 1
    /\ \E m \in turn.net : m.n = 2 /\ m.http # <<>>
    /\ Len(requests) = 2
    /\ requests[1].tool # requests[2].tool

(* -------------------------------- C24 ---------------------------------- *)

\* The record of the invocation of tool call n of the turn.
AuditOf(t, n, result) ==
    [conversation_id |-> t.conversation_id,
     tool_name |-> t.tool_calls[n].name,
     parameters |-> Inject(t.tool_calls[n].arguments, t.user_id),
     result |-> result]

\* C24: the step that ends the execution of a tool call, with a result or
\* with an error, appends the one record of that invocation (conversation,
\* tool, parameters with the injected user id, result) to the tool
\* invocations; no other step changes the tool invocations, and a request
\* is with the MCP server only when the records of all tool calls before it
\* are written.
C24_OneAuditRecordPerInvocation ==
    [][/\ IF turn.pc \in {"tools", "waiting"} /\ turn'.i = turn.i + 1
          THEN invocations' =
                   Append(invocations,
                          AuditOf(turn, turn.i + 1,
                                  turn'.tool_results_cache[
                                      turn.tool_calls[turn.i + 1].id]))
          ELSE invocations' = invocations
       /\ Len(invocations') = turn'.i
       /\ \A m \in turn'.net : m.n = Len(invocations') + 1]_vars

\* A turn has ended with the records of a failed and of a successful
\* invocation.
C24_Witness ==
    /\ turn.pc = "done" /\ response.status = 200
    /\ Len(invocations) = 2
    /\ Failed(invocations[1].result)
    /\ ~Failed(invocations[2].result)
    /\ Len(requests) = 2

(* -------------------------------- C23 ---------------------------------- *)

\* The conversations of a user in a conversations table.
ConversationsOf(convs, u) == {n \in DOMAIN convs : convs[n].user_id = u}

\* C23: no step removes or changes a conversation; a conversation is added
\* only by a chat request of a user who has none, together with that
\* request's user message; every user message is saved in the one
\* conversation of the user who sent it; after every step each user has at
\* most one conversation.
C23_OneConversationPerUser ==
    [][/\ \/ conversations' = conversations
          \/ /\ Len(conversations') = Len(conversations) + 1
             /\ SubSeq(conversations', 1, Len(conversations)) = conversations
             /\ ConversationsOf(conversations,
                                conversations'[Len(conversations')].user_id) = {}
             /\ Len(messages') = Len(messages) + 1
             /\ messages'[Len(messages')].role = "user"
             /\ messages'[Len(messages')].conversation_id =
                    conversations'[Len(conversations')].id
       /\ \A u \in Users : Cardinality(ConversationsOf(conversations', u)) <= 1
       /\ \A n \in DOMAIN messages' :
              \E k \in DOMAIN conversations' :
                  conversations'[k].id = messages'[n].conversation_id
       /\ (turn.pc = "new" /\ turn'.pc = "model1") =>
              /\ ConversationsOf(conversations', turn'.user_id) # {}
              /\ \A k \in ConversationsOf(conversations', turn'.user_id) :
                     /\ conversations'[k].id = turn'.conversation_id
                     /\ messages'[Len(messages')].conversation_id =
                            conversations'[k].id
              /\ ConversationsOf(conversations, turn'.user_id) # {} =>
                     conversations' = conversations]_vars

\* A user's second turn has started in the conversation that a request of
\* the same user, handled during another user's turn, had created.
C23_Witness ==
    /\ turn.pc = "model1" /\ turn.user_id = "u1"
    /\ conversations = <<[id |-> 1, user_id |-> "u2"], [id |-> 2, user_id |-> "u1"]>>
    /\ Len(SelectSeq(messages, LAMBDA m : m.conversation_id = 2)) = 2
    /\ Len(messages) = MaxChats + 1

(* -------------------------------- C35 ---------------------------------- *)

\* C35 (as the claim states it): every stored task has a title that is not
\* empty after trimming whitespace.
C35_TitlesNotBlank ==
    \A i \in 1 .. Len(tasks) : strip(tasks[i].title) # <<>>

(* -------------------------------- C36 ---------------------------------- *)

Ids(db) == {db[i].id : i \in 1 .. Len(db)}

\* C36: the ids of the rows of the tasks table are pairwise distinct and
\* below the next id to give out.  No call changes the id or the owner of a
\* row it keeps; update_task and complete_task keep every row; add_task
\* adds its row under the next id, which no row has had, and the next id
\* only grows; delete_task takes the row out, and no list_tasks result of
\* the table it leaves has that id.  So a deleted id is in no later table.
\* The calls are tried on every table in the state in which a successful
\* call has left it (every table but the empty one is first reached so).
C36_IdsDistinctAndNeverBack ==
    LET Kept(r) ==
            \/ r.db = tasks /\ r.nid = nextId
            \/ /\ r.nid >= nextId
               /\ \A i \in 1 .. Len(r.db) :
                      \/ r.db[i].id = nextId /\ r.nid = nextId + 1
                      \/ \E j \in 1 .. Len(tasks) :
                             /\ tasks[j].id = r.db[i].id
                             /\ tasks[j].user_id = r.db[i].user_id
        SameRows(r) ==
            /\ Len(r.db) = Len(tasks)
            /\ \A i \in 1 .. Len(tasks) :
                   /\ r.db[i].id = tasks[i].id
                   /\ r.db[i].user_id = tasks[i].user_id
        Gone(r, id) ==
            /\ id \notin Ids(r.db)
            /\ \A v \in Users :
                   LET listed == ListOf(r.db, v).body.tasks IN
                   \A n \in 1 .. Len(listed) : listed[n].task.id # id
    IN /\ \A i, j \in 1 .. Len(tasks) : tasks[i].id = tasks[j].id => i = j
       /\ \A i \in 1 .. Len(tasks) : tasks[i].id < nextId
       /\ (last.status = 200 \/ tasks = <<>>) => \A u \in Users :
           /\ \A t \in AddTitles, d \in AddDescriptions :
                  Kept(add_task_tool(tasks, nextId,
                           [title |-> t, description |-> d, user_id |-> u]))
           /\ \A k \in 1 .. Len(ScanOf(tasks, u)) :
               /\ \A t \in UpdateTitles, d \in UpdateDescriptions :
                      LET r == update_task_tool(tasks, nextId,
                                   [task_position |-> k, user_id |-> u,
                                    title |-> t, description |-> d])
                      IN Kept(r) /\ SameRows(r)
               /\ \A v \in BOOLEAN :
                      LET r == complete_task_tool(tasks, nextId,
                                   [task_position |-> k, user_id |-> u,
                                    completed |-> v])
                      IN Kept(r) /\ SameRows(r)
               /\ LET r == delete_task_tool(tasks, nextId,
                                [task_position |-> k, user_id |-> u])
                  IN /\ r.status = 200
                     /\ Kept(r)
                     /\ Gone(r, ScanOf(tasks, u)[k].id)

\* A task has been added after the deletion of another one, and a task has
\* been completed.
C36_Witness ==
    /\ last.tool = "add_task" /\ last.status = 200
    /\ Len(tasks) >= 2
    /\ Len(tasks) < nextId - 1
    /\ \E i \in 1 .. Len(tasks) : tasks[i].completed

(* -------------------------------- C37 ---------------------------------- *)

\* C37: for every owner and every task that list_tasks reports, the reported
\* position resolves back to that task: get_task_by_position returns it,
\* update_task and complete_task at that position rewrite the row with its
\* id, delete_task at that position removes it; and the id-to-position
\* lookups of call_mcp_tool and of execute_tool give that position for its id.
\* It is checked on every table, in the state a list_tasks call leaves.
C37_ListedPositionResolvesBack ==
    Listed => \A u \in Users :
        LET list == ListOf(tasks, u)
            listed == list.body.tasks
        IN \A n \in 1 .. Len(listed) :
            LET e == listed[n]
                k == e.position
            IN /\ e.task \in Range(tasks)
               /\ get_task_by_position(tasks, u, k).body.task = e.task
               /\ get_task_position_from_id(list, e.task.id) = Some(k)
               /\ execute_tool_task_position(tasks, u, e.task.id) = Some(k)
               /\ LET r == delete_task_tool(tasks, nextId,
                               [task_position |-> k, user_id |-> u])
                  IN r.status = 200 /\ r.db = Without(tasks, e.task.id)
               /\ LET r == complete_task_tool(tasks, nextId,
                               [task_position |-> k, user_id |-> u,
                                completed |-> ~e.task.completed])
                  IN /\ r.status = 200
                     /\ r.db = Replaced(tasks, e.task.id,
                                   [e.task EXCEPT !.completed = ~e.task.completed])
               /\ LET r == update_task_tool(tasks, nextId,
                               [task_position |-> k, user_id |-> u,
                                title |-> Some(<<"z">>), description |-> None])
                  IN /\ r.status = 200
                     /\ r.db = Replaced(tasks, e.task.id,
                                   [e.task EXCEPT !.title = <<"z">>])

\* A user has a completed task before a pending one in scan order, so that
\* list_tasks returns them in another order than the scan.
C37_Witness ==
    /\ last.tool = "list_tasks" /\ last.status = 200
    /\ \E u \in Users :
           LET scan == ScanOf(tasks, u) IN
           /\ Len(scan) = 3
           /\ scan[1].completed /\ ~scan[2].completed /\ scan[3].completed
           /\ \E v \in Users \ {u} : ScanOf(tasks, v) = <<>>

(* -------------------------------- C31 ---------------------------------- *)

\* The messages table of a turn that has saved its user message, followed by
\* `more`.
TurnMessages(more) ==
    PriorMessages
    \o <<[conversation_id |-> turn.conversation_id, role |-> "user",
          content |-> turn.message]>>
    \o more

\* The messages table is as far as the turn is: the user message is there
\* from before the first model call on, alone until the turn ends; the reply
\* is there at the end of a successful turn only, after every tool call has
\* been executed and, when there were tool calls, the second model call has
\* answered.
MessagesAsFarAsTurn ==
    CASE turn.pc = "new" -> messages = PriorMessages
      [] turn.pc \in {"model1", "tools", "waiting", "model2"} ->
            messages = TurnMessages(<<>>)
      [] turn.pc = "done" /\ response.status = 403 -> messages = PriorMessages
      [] turn.pc = "done" /\ response.status = 500 ->
            messages = TurnMessages(<<>>)
      [] turn.pc = "done" /\ response.status = 200 ->
            /\ messages =
                   TurnMessages(<<[conversation_id |-> turn.conversation_id,
                                   role |-> "assistant",
                                   content |-> response.message]>>)
            /\ turn.i = Len(turn.tool_calls)
            /\ Len(invocations) = Len(turn.tool_calls)
            /\ turn.net = {}
            /\ turn.tool_calls # <<>> => turn.api_messages # <<>>

\* C31: no step changes or removes a row of the messages table, and after
\* every step the table is as far as the turn is: the user message is saved
\* before the first model call, the assistant's reply after the last tool
\* call and the last model call, and a successful turn has added the user
\* message and the reply, in this order, and nothing else.
C31_MessagesAppendedInOrder ==
    [][/\ Len(messages') >= Len(messages)
       /\ SubSeq(messages', 1, Len(messages)) = messages
       /\ MessagesAsFarAsTurn']_vars

\* A turn with two executed tool calls has ended with its reply saved.
C31_Witness ==
    /\ turn.pc = "done" /\ response.status = 200
    /\ Len(turn.tool_calls) = 2 /\ Len(requests) = 2
    /\ tasks # before
    /\ Len(messages) = Len(PriorMessages) + 2

(* -------------------------------- C34 ---------------------------------- *)

\* How far a turn is.
Stage(t) ==
    CASE t.pc = "new" -> 0
      [] t.pc = "model1" -> 1
      [] t.pc = "tools" -> 2
      [] t.pc = "model2" -> 3
      [] t.pc = "done" -> 4

\* C34: every turn ends; it only moves on from the first model call to the
\* one round of tool calls (one pass per tool call of the first response)
\* to the second model call to its end.  The step of the second model call
\* ends the turn and executes nothing, whatever tool calls the second
\* response asks for, and nothing is executed after the end; so a turn whose
\* first response asks for list_tasks only ends with the tasks table as it
\* was.
C34_TwoModelCallsOneRound ==
    /\ [][/\ \/ Stage(turn') > Stage(turn)
             \/ /\ turn.pc = "tools" /\ turn'.pc = "tools"
                /\ turn'.i = turn.i + 1
                /\ turn'.tool_calls = turn.tool_calls
          /\ turn.pc \in {"tools", "model2"} =>
                 turn'.tool_calls = turn.tool_calls
          /\ turn.pc = "model2" =>
                 /\ turn'.pc = "done"
                 /\ tasks' = tasks /\ nextId' = nextId
                 /\ invocations' = invocations /\ requests' = requests
          /\ Len(invocations') <= Len(turn'.tool_calls)
          /\ (/\ turn'.pc = "done"
              /\ \A n \in 1 .. Len(turn'.tool_calls) :
                     turn'.tool_calls[n].name = "list_tasks") =>
                 tasks' = before']_vars
    /\ <>(turn.pc = "done")

\* A turn whose only tool call was list_tasks has ended with a reply while
\* the tasks table holds tasks.
C34_Witness ==
    /\ turn.pc = "done" /\ response.status = 200
    /\ Len(turn.tool_calls) = 1 /\ turn.tool_calls[1].name = "list_tasks"
    /\ tasks # <<>> /\ tasks = before
    /\ ~Failed(invocations[1].result)

(* -------------------------------- C32 ---------------------------------- *)

\* The row that request q is to leave in place of row t.
Rewritten(t, q) ==
    IF q.tool = "complete_task"
    THEN [t EXCEPT !.completed = IF Has(q.args, "completed")
                                 THEN q.args.completed ELSE TRUE]
    ELSE [t EXCEPT !.title = IF Has(q.args, "title") THEN q.args.title ELSE @,
                   !.description = IF Has(q.args, "description")
                                   THEN q.args.description ELSE @]

\* C32: the tasks table changes only in the step in which the MCP server
\* handles one request, and by that request alone: a successful
\* update_task, complete_task or delete_task rewrites or removes the row
\* that is at the requested position of the owner's scan of the table as it
\* is when the step begins, and leaves every other row; a failed one and a
\* list_tasks leave the table.  This holds with the requests of the turn and
\* of another client of the same owner served in any order.
C32_ScanAndCommitOnOneSnapshot ==
    [][IF requests' # requests
       THEN LET q == requests'[Len(requests')]
                scan == ScanOf(tasks, q.args.user_id)
            IN /\ requests' = Append(requests, q)
               /\ q.tool = "list_tasks" => tasks' = tasks
               /\ q.tool \in {"update_task", "complete_task", "delete_task"} =>
                      IF last'.status = 200
                      THEN /\ q.args.task_position \in 1 .. Len(scan)
                           /\ LET t == scan[q.args.task_position] IN
                              tasks' = IF q.tool = "delete_task"
                                       THEN Without(tasks, t.id)
                                       ELSE Replaced(tasks, t.id, Rewritten(t, q))
                      ELSE tasks' = tasks
       ELSE tasks' = tasks]_vars

\* The turn's delete_task has succeeded after a delete_task of another
\* client for the same owner was served, while the turn was waiting for
\* the answer to its list request or between its two calls.
C32_Witness ==
    /\ turn.pc = "done" /\ response.status = 200
    /\ Len(requests) = 3
    /\ requests[1].tool = "list_tasks"
    /\ requests[2].tool = "delete_task" /\ requests[3].tool = "delete_task"
    /\ \E m \in turn.net :
           /\ m.n = 0 /\ m.http # <<>> /\ m.http[1].status = 200
           /\ m.args.user_id = turn.user_id
    /\ ~Failed(turn.tool_results_cache[turn.tool_calls[Len(turn.tool_calls)].id])

(* -------------------------------- C33 ---------------------------------- *)

\* The place in the requests served so far of the turn's list_tasks request,
\* 0 when it has not been served.
ListServedAt ==
    LET at == {j \in 1 .. Len(requests) :
                  requests[j] = [tool |-> "list_tasks",
                                 args |-> [user_id |-> turn.user_id]]}
    IN IF at = {} THEN 0 ELSE CHOOSE j \in at : \A i \in at : j <= i

\* No request of the turn's owner has been served since the turn's list.
NoneSinceList ==
    /\ ListServedAt > 0
    /\ \A j \in ListServedAt + 1 .. Len(requests) :
           requests[j].args.user_id # turn.user_id

C38_TaskIdCallHitsThatTask ==
    [][\A m \in turn.net \ turn'.net :
          (/\ requests' # requests
           /\ m.n = turn.i + 1
           /\ turn.pc = "waiting"
           /\ Has(turn.tool_calls[m.n].arguments, "task_id")
           /\ last'.status = 200) =>
             LET id == turn.tool_calls[m.n].arguments.task_id IN
             /\ id \in Ids(tasks)
             /\ IF m.tool = "delete_task"
                THEN tasks' = Without(tasks, id)
                ELSE \A i \in 1 .. Len(tasks) :
                        tasks[i].id # id => tasks'[i] = tasks[i]]_vars

====
